---- MODULE Spec2Model ----
(***************************************************************************)
(* A state-machine model of the bilibili-player playback accelerator:      *)
(* the MultiThreadLoader range-request engine, the MediaPreloader segment  *)
(* cache, the AdaptiveQuality decision engine and the dual-stream          *)
(* syncAudio controller.  Handlers run to completion on the JavaScript     *)
(* event loop, so every handler, timer callback and promise continuation   *)
(* is one atomic action.                                                   *)
(***************************************************************************)
EXTENDS Integers, Sequences, FiniteSets, TLC

Min(a, b) == IF a < b THEN a ELSE b
Max(a, b) == IF a > b THEN a ELSE b

\* The sum of f over the finite set S of arguments.
RECURSIVE SumOver(_, _)
SumOver(f, S) ==
    IF S = {} THEN 0
    ELSE LET x == CHOOSE x \in S : TRUE IN f[x] + SumOver(f, S \ {x})

(***************************************************************************)
(* MultiThreadLoader (multi-thread-loader.js)                              *)
(***************************************************************************)

\* Number of download sessions (startDownload calls that pass the guard)
\* explored on one loader.
MaxSessions == 2

\* Total sizes handed to startDownload, in units of 512 KiB.
TotalSizes == {3, 4}

\* config.segmentSize: 1 MiB, i.e. two units of 512 KiB.
SegmentSize == 2

\* config.retryAttempts as configured with setConfig({retryAttempts}); the
\* constructor sets 3.
retryAttempts == 1

\* Number of range requests the network lets fail in one run.
MaxFailures == 2

\* Single-thread preload requests in flight at once, largest response body,
\* and the last value of Date.now().
MaxFetches == 2
MaxDataSize == 2
MaxClock == 2

\* config.maxConcurrentDownloads as set by the constructor; it is also the
\* number of workers initializeWorkers creates.
DefaultMaxConcurrent == 8

\* Values passed to setConfig({maxConcurrentDownloads}).
ConcurrencyInputs == {0, 9}

Sessions == 1..MaxSessions

SegmentCount(totalSize) == (totalSize + SegmentSize - 1) \div SegmentSize

\* calculateSegments: segment k-1 covers [start, end], both inclusive.
calculateSegments(totalSize) ==
    [k \in 1..SegmentCount(totalSize) |->
        [id    |-> k - 1,
         start |-> (k - 1) * SegmentSize,
         end   |-> Min((k - 1) * SegmentSize + SegmentSize - 1, totalSize - 1)]]

MaxSegments == SegmentCount(CHOOSE t \in TotalSizes : \A u \in TotalSizes : u <= t)
SegIds == 0..(MaxSegments - 1)

\* A download object is identified by the session that created it and its
\* segment id ("segment_i"); ids repeat from one session to the next.
Tasks == Sessions \X SegIds
NoTask == <<0, 0>>

VARIABLES
    maxConcurrentDownloads, \* config.maxConcurrentDownloads
    isLoading,              \* state.isLoading
    downloadQueue,          \* state.downloadQueue: sequence of download objects
    activeDownloads,        \* state.activeDownloads: id -> owning session, 0 = no entry
    downloadedSegments,     \* state.downloadedSegments: entries in Map insertion order
    downloadedBytes,        \* state.downloadedBytes
    totalBytes,             \* state.totalBytes
    retries,                \* download.retries of every download object
    workerPool,             \* workerPool.length
    availableWorkers,       \* availableWorkers.length
    netMain,                \* fetches issued by downloadSegmentInMainThread, not yet settled
    netWorker,              \* fetches issued inside a worker, not yet answered
    retryTimers,            \* pending setTimeout(retryDownload) per download object
    monitors,               \* sessions whose checkCompletion timer is pending
    nSessions,              \* number of sessions started so far
    sessTotal,              \* totalSize of every session
    cancelled,              \* sessions stopped by stopDownload before they completed
                            \* (0: a stopDownload that found no session running)
    requests,               \* range requests issued so far per download object
    errors,                 \* onError invocations per download object
    failed,                 \* download objects with at least one failed response
    nFailures,              \* failed responses so far
    succeeded,              \* download objects with at least one 206 response
    ev                      \* what the last handler did: callbacks fired, segment stored

loaderVars == <<maxConcurrentDownloads, isLoading, downloadQueue, activeDownloads,
                downloadedSegments, downloadedBytes, totalBytes, retries, workerPool,
                availableWorkers, netMain, netWorker, retryTimers, monitors, nSessions,
                sessTotal, cancelled, requests, errors, failed, nFailures, succeeded, ev>>

(***************************************************************************)
(* MediaPreloader (preloader.js).  The repository holds two versions of    *)
(* the class: the current one, which can hand a preload to a               *)
(* MultiThreadLoader, and an earlier one without loaders; `variant` says   *)
(* which of the two is running.                                            *)
(***************************************************************************)

Types == {"video", "audio"}

VARIABLES
    variant,                \* "current" or "legacy" preloader.js
    enabled,                \* config[type].enabled
    useMultiThread,         \* config[type].useMultiThread and a loader exists
    preloadDuration,        \* config[type].preloadDuration
    isPreloading,           \* state.isPreloading
    currentTime,            \* state.currentVideoTime / state.currentAudioTime
    segments,               \* config[type].segments, entries in Map insertion order
    fetches,                \* single-thread range requests awaiting their response
    sessTarget,             \* targetTime captured by the onComplete closure of a session
    clock,                  \* Date.now()
    stopped,                \* MediaPreloader.stop() has been called
    unserved                \* per stream: the targets of range requests that ended without
                            \* data since checkPreload last ran for the stream

preloaderVars == <<variant, enabled, useMultiThread, preloadDuration, isPreloading,
                   currentTime, segments, fetches, sessTarget, clock, stopped, unserved>>

(***************************************************************************)
(* AdaptiveQuality (src/js/adaptive-quality.js).  Speeds and bitrates are   *)
(* in tenths of a Mbps, times in seconds.                                   *)
(***************************************************************************)

VARIABLES
    configEnabled,      \* config.enabled
    currentQuality,     \* state.currentQuality (qn), 0 for null
    stallCount,         \* state.stallCount
    avgNetworkSpeed,    \* state.avgNetworkSpeed
    bufferHealth,       \* state.bufferHealth
    isAdjusting,        \* state.isAdjusting
    adjustHistory,      \* state.adjustHistory: [timestamp, from, to, reason]
    started,            \* start() was called: callback and document listener set
    intervalId,         \* the setInterval of start() is running
    intervalDue,        \* time at which that interval fires next
    awaiting,           \* targets whose qualityChangeCallback has not returned
    coolDownTimers,     \* due times of the pending setTimeout of adjustQuality
    now,                \* Date.now()
    lastTrigger,        \* outcome of the last trigger: "none", "accepted", "blocked"
    stalledSinceEvaluation  \* recordStall ran after the last checkAndAdjustQuality

aqVars == <<configEnabled, currentQuality, stallCount, avgNetworkSpeed,
            bufferHealth, isAdjusting, adjustHistory, started, intervalId, intervalDue,
            awaiting, coolDownTimers, now, lastTrigger, stalledSinceEvaluation>>

(***************************************************************************)
(* The synchronisation handlers replacePlayer attaches to the video        *)
(* element of a DASH pair, in the refactored player                        *)
(* (src/unnamed/part_000) and in the legacy one (src/js/player.js).         *)
(* Positions are in tenths of a second.                                     *)
(***************************************************************************)

VARIABLES
    playerVariant,      \* "refactored" or "legacy"
    video,              \* [currentTime, paused, seeking, playbackRate, volume, muted]
    audio,              \* the same attributes of the audio element
    videoEvents         \* events queued on the video element, oldest first

syncVars == <<playerVariant, video, audio, videoEvents>>

(***************************************************************************)
(* The listeners replacePlayer registers on the elements of a DASH pair    *)
(* and the record cleanupPlayerEventListeners detaches them by             *)
(* (src/unnamed/part_000).  A pair of elements is named by the number of    *)
(* the createPlayerElements call that made it.                              *)
(***************************************************************************)

VARIABLES
    playerEventHandlers,    \* [video, audio]: the Map from event name to handler
    listeners,              \* the listeners attached: [player, type, event, handler]
    litePlayer,             \* the pair inside #bilibili-lite-player, 0 when none
    created,                \* pairs made so far
    handled                 \* the listeners the last dispatched event ran

registryVars == <<playerEventHandlers, listeners, litePlayer, created, handled>>

(***************************************************************************)
(* Buffering: checkBuffering of the legacy player (src/js/player.js) and   *)
(* of the refactored one (src/unnamed/part_000), and the low-buffer         *)
(* handling of the PlaybackOptimizer the legacy player starts               *)
(* (src/js/playback-optimizer.js).  Buffer lengths are in seconds.          *)
(***************************************************************************)

VARIABLES
    bufferingVariant,   \* "refactored" or "legacy"
    videoElement,       \* [paused, seeking, readyState]
    audioElement,       \* the same attributes of the audio element
    loading,            \* style.display of the loading overlay
    mediaEvents,        \* play and pause events queued on the video element
    bufferAhead,        \* buffered.end(last) - currentTime of the video element
    state,              \* PlaybackOptimizer.state: [bufferHealth, isOptimizing]
    checkBufferTimer,   \* a setTimeout(checkBuffer, ...) is pending
    pausedForBuffering, \* code paused the video and the user has not played since
    ran                 \* what the last step ran

bufferingVars == <<bufferingVariant, videoElement, audioElement, loading, mediaEvents,
                   bufferAhead, state, checkBufferTimer, pausedForBuffering, ran>>

(***************************************************************************)
(* The numeric configuration setConfig writes, beyond the fields the       *)
(* variables above already hold (src/unnamed/part_001).  The loader is the  *)
(* videoLoader of the preloader.  Sizes are in bytes, times in ms.          *)
(***************************************************************************)

VARIABLES
    loaderConfig,           \* MultiThreadLoader.config: [segmentSize, retryAttempts, timeout]
    preloaderConcurrency,   \* MediaPreloader.config[type].maxConcurrentDownloads
    lastCall,               \* the last setConfig call: on which object, with which config
    calls                   \* setConfig calls made so far

configVars == <<loaderConfig, preloaderConcurrency, lastCall, calls>>

(***************************************************************************)
(* The extent startDownload plans for (src/unnamed/part_001).  Sizes are   *)
(* in bytes.                                                               *)
(***************************************************************************)

VARIABLES
    plan    \* the last startDownload on an idle loader: the HEAD outcome, the
            \* resulting state.totalBytes and the download objects queued

planVars == <<plan>>

(***************************************************************************)
(* startDownload up to the planning of the segments                        *)
(***************************************************************************)

\* config.segmentSize as the constructor sets it.
defaultSegmentSize == 1024 * 1024

\* The extent getFileSize returns when the HEAD request throws.
defaultFileSize == 50 * 1024 * 1024

\* Largest content-length explored, in units of 256 KiB.
MaxLengthUnits == 100

ContentLengths == {k * 262144 : k \in 0..MaxLengthUnits}

\* Values of the totalSize argument; 0 stands for null, undefined and 0,
\* which !totalSize does not tell apart.
TotalSizeArguments == {0, 1, 1048576, 3145729}

\* How the HEAD request of getFileSize ends: fetch throws, the response has
\* no content-length header, or it has one.
NoHead == [kind |-> "notSent", length |-> 0]
HeadOutcomes ==
    {[kind |-> "throws", length |-> 0], [kind |-> "noLength", length |-> 0]}
        \cup {[kind |-> "length", length |-> n] : n \in ContentLengths}

\* getFileSize: contentLength ? parseInt(contentLength) : 0, and 50 MB from
\* the catch clause.
getFileSize(head) ==
    IF head.kind = "throws" THEN defaultFileSize
    ELSE IF head.kind = "length" THEN head.length
    ELSE 0

\* calculateSegments(totalSize).length: Math.ceil(totalSize / segmentSize)
\* iterations of the loop.
segmentCount(totalSize) == (totalSize + defaultSegmentSize - 1) \div defaultSegmentSize

PlanIdle == plan = [head |-> NoHead, totalBytes |-> 0, queued |-> 0, called |-> FALSE]

\* startDownload(url, totalSize) on an idle loader, with the HEAD request
\* ending as `head` when it is sent.
PlanDownload(totalSize, head) ==
    LET sent == totalSize = 0
        resolved == IF sent THEN getFileSize(head) ELSE totalSize
    IN  /\ plan' = [head |-> IF sent THEN head ELSE NoHead,
                    totalBytes |-> resolved,
                    queued |-> segmentCount(resolved),
                    called |-> TRUE]
        /\ UNCHANGED <<loaderVars, preloaderVars, aqVars, syncVars, registryVars,
                       bufferingVars, configVars>>

PlanNext == \E totalSize \in TotalSizeArguments, head \in HeadOutcomes :
                PlanDownload(totalSize, head)

vars == <<loaderVars, preloaderVars, aqVars, syncVars, registryVars, bufferingVars, configVars, planVars>>

(***************************************************************************)
(* AdaptiveQuality: constants, decision functions and handlers             *)
(***************************************************************************)

MaxTime == 10               \* the clock stops here
MaxStalls == 3              \* recordStall is not called more often
NetworkInputs == {<<10, 0>>, <<80, 20>>}    \* (speed, bufferHealth) samples
StartQualities == {80}       \* playInfo.quality || 80
Directions == {"higher", "lower", "none"}

adjustInterval == 5
stallThreshold == 3
bufferThreshold == 10
coolDown == 10
maxHistory == 10

qualityLevels ==
    << [qn |-> 16, bitrate |-> 5],   [qn |-> 32, bitrate |-> 12],
       [qn |-> 64, bitrate |-> 25],  [qn |-> 74, bitrate |-> 35],
       [qn |-> 80, bitrate |-> 50],  [qn |-> 112, bitrate |-> 75],
       [qn |-> 116, bitrate |-> 100], [qn |-> 120, bitrate |-> 200] >>

NoQuality == [qn |-> 0, bitrate |-> 0]

\* qualityLevels.findIndex(q => q.qn === qn), one-based; 0 when there is none.
findIndex(qn) ==
    IF \E i \in 1..Len(qualityLevels) : qualityLevels[i].qn = qn
    THEN CHOOSE i \in 1..Len(qualityLevels) : qualityLevels[i].qn = qn
    ELSE 0

\* getLowerQuality falling to the bottom of the ladder.
getLowestQuality(currentQn) ==
    IF findIndex(currentQn) > 1 THEN qualityLevels[1] ELSE NoQuality

getLowerQuality(currentQn) ==
    IF findIndex(currentQn) > 1 THEN qualityLevels[findIndex(currentQn) - 1] ELSE NoQuality

getHigherQuality(currentQn) ==
    IF findIndex(currentQn) < Len(qualityLevels)
    THEN qualityLevels[findIndex(currentQn) + 1]
    ELSE NoQuality

\* speed / 1.2 >= bitrate, for the highest level that satisfies it.
\* getRecommendedQualityBySpeed without the safety margin.
getRecommendedQualityNoMargin(speed) ==
    IF speed <= 0 THEN NoQuality
    ELSE LET fits == {i \in 1..Len(qualityLevels) : speed >= qualityLevels[i].bitrate}
         IN  IF fits = {} THEN qualityLevels[1]
             ELSE qualityLevels[CHOOSE i \in fits : \A j \in fits : j <= i]

getRecommendedQualityBySpeed(speed) ==
    IF speed <= 0 THEN NoQuality
    ELSE LET fits == {i \in 1..Len(qualityLevels) : speed * 10 >= qualityLevels[i].bitrate * 12}
         IN  IF fits = {} THEN qualityLevels[1]
             ELSE qualityLevels[CHOOSE i \in fits : \A j \in fits : j <= i]

\* A reason string: which decision wrote it and the number it quotes (the
\* stall count, the speed or the buffer health).
Reason(kind, detail) == [kind |-> kind, detail |-> detail]

NoChange == [shouldChange |-> FALSE, targetQuality |-> 0, reason |-> Reason("none", 0)]

\* makeQualityDecision trying the throughput match before the stall downgrade.
makeQualityDecisionSpeedFirst ==
    LET lowerQuality == getLowerQuality(currentQuality)
        recommendedQuality == getRecommendedQualityBySpeed(avgNetworkSpeed)
        higherQuality == getHigherQuality(currentQuality)
    IN  IF recommendedQuality # NoQuality /\ recommendedQuality.qn # currentQuality
        THEN [shouldChange |-> TRUE, targetQuality |-> recommendedQuality.qn,
              reason |-> Reason("speed", avgNetworkSpeed)]
        ELSE IF stallCount >= stallThreshold /\ lowerQuality # NoQuality
        THEN [shouldChange |-> TRUE, targetQuality |-> lowerQuality.qn,
              reason |-> Reason("stall", stallCount)]
        ELSE IF /\ bufferHealth > bufferThreshold /\ stallCount = 0
                /\ higherQuality # NoQuality /\ avgNetworkSpeed >= higherQuality.bitrate
        THEN [shouldChange |-> TRUE, targetQuality |-> higherQuality.qn,
              reason |-> Reason("buffer", bufferHealth)]
        ELSE NoChange

makeQualityDecision ==
    LET lowerQuality == getLowerQuality(currentQuality)
        recommendedQuality == getRecommendedQualityBySpeed(avgNetworkSpeed)
        higherQuality == getHigherQuality(currentQuality)
    IN  IF stallCount >= stallThreshold /\ lowerQuality # NoQuality
        THEN [shouldChange |-> TRUE, targetQuality |-> lowerQuality.qn, reason |-> Reason("stall", stallCount)]
        ELSE IF recommendedQuality # NoQuality /\ recommendedQuality.qn # currentQuality
        THEN [shouldChange |-> TRUE, targetQuality |-> recommendedQuality.qn,
              reason |-> Reason("speed", avgNetworkSpeed)]
        ELSE IF /\ bufferHealth > bufferThreshold /\ stallCount = 0
                /\ higherQuality # NoQuality /\ avgNetworkSpeed >= higherQuality.bitrate
        THEN [shouldChange |-> TRUE, targetQuality |-> higherQuality.qn, reason |-> Reason("buffer", bufferHealth)]
        ELSE NoChange

\* adjustHistory.push(...) alone, as a variant to compare.
pushWithoutShift(h, e) == Append(h, e)

\* adjustHistory.push(...) followed by the shift that keeps the last ten.
pushHistory(h, e) ==
    LET h1 == Append(h, e) IN IF Len(h1) > maxHistory THEN Tail(h1) ELSE h1

\* The variables adjustQuality may write.
adjustVars == <<isAdjusting, adjustHistory, awaiting, currentQuality, stallCount,
                coolDownTimers>>

\* adjustQuality without its isAdjusting guard.
adjustQualityUnguarded(targetQuality, reason) ==
    /\ isAdjusting' = TRUE
    /\ adjustHistory' = pushHistory(adjustHistory,
                            [timestamp |-> now, from |-> currentQuality,
                             to |-> targetQuality, reason |-> reason])
    /\ IF started
       THEN /\ awaiting' = awaiting \cup {targetQuality}
            /\ UNCHANGED <<currentQuality, stallCount, coolDownTimers>>
       ELSE /\ currentQuality' = targetQuality
            /\ stallCount' = 0
            /\ coolDownTimers' = coolDownTimers \cup {now + coolDown}
            /\ UNCHANGED awaiting

\* adjustQuality up to its await: with no callback set it runs to its end.
adjustQuality(targetQuality, reason) ==
    IF isAdjusting
    THEN UNCHANGED adjustVars
    ELSE /\ isAdjusting' = TRUE
         /\ adjustHistory' = pushHistory(adjustHistory,
                                 [timestamp |-> now, from |-> currentQuality,
                                  to |-> targetQuality, reason |-> reason])
         /\ IF started
            THEN /\ awaiting' = awaiting \cup {targetQuality}
                 /\ UNCHANGED <<currentQuality, stallCount, coolDownTimers>>
            ELSE /\ currentQuality' = targetQuality
                 /\ stallCount' = 0
                 /\ coolDownTimers' = coolDownTimers \cup {now + coolDown}
                 /\ UNCHANGED awaiting

checkAndAdjustQuality ==
    IF ~configEnabled \/ isAdjusting
    THEN UNCHANGED adjustVars
    ELSE IF makeQualityDecision.shouldChange
    THEN adjustQuality(makeQualityDecision.targetQuality, makeQualityDecision.reason)
    ELSE UNCHANGED adjustVars

\* The target handleQualityRequest derives from request.direction, 0 for none.
requestedQuality(direction) ==
    IF direction = "higher" THEN getHigherQuality(currentQuality).qn
    ELSE IF direction = "lower" THEN getLowerQuality(currentQuality).qn
    ELSE 0

handleQualityRequest(direction) ==
    IF requestedQuality(direction) # 0
    THEN adjustQuality(requestedQuality(direction), Reason("external", 0))
    ELSE UNCHANGED adjustVars

\* What the trigger came to: a change was recorded, or one was due and refused.
Outcome(due) ==
    lastTrigger' = IF adjustHistory' # adjustHistory THEN "accepted"
                   ELSE IF due THEN "blocked"
                   ELSE "none"

AdaptiveQualityInit ==
    /\ configEnabled = TRUE
    /\ currentQuality = 0
    /\ stallCount = 0
    /\ avgNetworkSpeed = 0
    /\ bufferHealth = 0
    /\ isAdjusting = FALSE
    /\ adjustHistory = <<>>
    /\ started = FALSE
    /\ intervalId = FALSE
    /\ intervalDue = 0
    /\ awaiting = {}
    /\ coolDownTimers = {}
    /\ now = 0
    /\ lastTrigger = "none"
    /\ stalledSinceEvaluation = FALSE

\* start(currentQuality, callback); replacePlayer starts each engine once.
Start(quality) ==
    /\ ~started
    /\ started' = TRUE
    /\ currentQuality' = quality
    /\ intervalId' = TRUE
    /\ intervalDue' = now + adjustInterval
    /\ UNCHANGED <<configEnabled, stallCount, avgNetworkSpeed, bufferHealth,
                   isAdjusting, adjustHistory, awaiting, coolDownTimers, now, lastTrigger,
                   stalledSinceEvaluation>>

Stop ==
    /\ intervalId
    /\ intervalId' = FALSE
    /\ UNCHANGED <<configEnabled, currentQuality, stallCount, avgNetworkSpeed, bufferHealth, isAdjusting, adjustHistory, started,
                   intervalDue, awaiting, coolDownTimers, now, lastTrigger,
                   stalledSinceEvaluation>>

UpdateNetworkStatus(speed, buffer) ==
    /\ avgNetworkSpeed' = speed
    /\ bufferHealth' = buffer
    /\ <<speed, buffer>> # <<avgNetworkSpeed, bufferHealth>>
    /\ UNCHANGED <<configEnabled, currentQuality, stallCount, isAdjusting,
                   adjustHistory, started, intervalId, intervalDue, awaiting,
                   coolDownTimers, now, lastTrigger,
                   stalledSinceEvaluation>>

\* recordStall; state.lastStallTime, which nothing reads, is left out.
RecordStall ==
    /\ stallCount < MaxStalls
    /\ stallCount' = stallCount + 1
    /\ stalledSinceEvaluation' = TRUE
    /\ UNCHANGED <<configEnabled, currentQuality, avgNetworkSpeed, bufferHealth,
                   isAdjusting, adjustHistory, started, intervalId, intervalDue, awaiting,
                   coolDownTimers, now, lastTrigger>>

\* setConfig({enabled}).
SetEnabled(b) ==
    /\ configEnabled # b
    /\ configEnabled' = b
    /\ UNCHANGED <<currentQuality, stallCount, avgNetworkSpeed,
                   bufferHealth, isAdjusting, adjustHistory, started, intervalId,
                   intervalDue, awaiting, coolDownTimers, now, lastTrigger,
                   stalledSinceEvaluation>>

\* The setInterval callback of start().
IntervalFires ==
    /\ intervalId
    /\ now >= intervalDue
    /\ intervalDue' = intervalDue + adjustInterval
    /\ checkAndAdjustQuality
    /\ stalledSinceEvaluation' = FALSE
    /\ Outcome(configEnabled /\ makeQualityDecision.shouldChange)
    /\ UNCHANGED <<configEnabled, avgNetworkSpeed, bufferHealth, started,
                   intervalId, now>>

TriggerEvaluation ==
    /\ checkAndAdjustQuality
    /\ stalledSinceEvaluation' = FALSE
    /\ Outcome(configEnabled /\ makeQualityDecision.shouldChange)
    /\ UNCHANGED <<configEnabled, avgNetworkSpeed, bufferHealth, started,
                   intervalId, intervalDue, now>>

\* A qualityChangeRequest event reaches the listener start() added.
QualityChangeRequest(direction) ==
    /\ started
    /\ handleQualityRequest(direction)
    /\ Outcome(requestedQuality(direction) # 0)
    /\ UNCHANGED <<configEnabled, avgNetworkSpeed, bufferHealth, started,
                   intervalId, intervalDue, now,
                   stalledSinceEvaluation>>

\* The awaited qualityChangeCallback returns or throws: the rest of
\* adjustQuality, with its finally clause.
CallbackReturns(targetQuality, ok) ==
    /\ targetQuality \in awaiting
    /\ awaiting' = awaiting \ {targetQuality}
    /\ currentQuality' = IF ok THEN targetQuality ELSE currentQuality
    /\ stallCount' = IF ok THEN 0 ELSE stallCount
    /\ coolDownTimers' = coolDownTimers \cup {now + coolDown}
    /\ UNCHANGED <<configEnabled, avgNetworkSpeed, bufferHealth,
                   isAdjusting, adjustHistory, started, intervalId, intervalDue, now,
                   lastTrigger,
                   stalledSinceEvaluation>>

\* The setTimeout of the finally clause fires, no earlier than it is due.
CoolDownExpires(due) ==
    /\ due \in coolDownTimers
    /\ now >= due
    /\ coolDownTimers' = coolDownTimers \ {due}
    /\ isAdjusting' = FALSE
    /\ UNCHANGED <<configEnabled, currentQuality, stallCount, avgNetworkSpeed, bufferHealth, adjustHistory, started, intervalId,
                   intervalDue, awaiting, now, lastTrigger,
                   stalledSinceEvaluation>>

\* A second passes.  The engine is started in the task that constructs it,
\* and a timer that is due fires before the clock moves on.
Tick ==
    /\ now < MaxTime
    /\ started
    /\ intervalId => now < intervalDue
    /\ \A due \in coolDownTimers : now < due
    /\ now' = now + 1
    /\ UNCHANGED <<configEnabled, currentQuality, stallCount, avgNetworkSpeed, bufferHealth, isAdjusting, adjustHistory, started,
                   intervalId, intervalDue, awaiting, coolDownTimers, lastTrigger,
                   stalledSinceEvaluation>>

\* The setTimeout of the finally clause fires after its delay; how long the
\* delay was is not measured.
CoolDownFires(due) ==
    /\ due \in coolDownTimers
    /\ coolDownTimers' = coolDownTimers \ {due}
    /\ isAdjusting' = FALSE
    /\ UNCHANGED <<configEnabled, currentQuality, stallCount, avgNetworkSpeed, bufferHealth,
                   adjustHistory, started, intervalId, intervalDue, awaiting, now,
                   lastTrigger, stalledSinceEvaluation>>

(***************************************************************************)
(* Audio/video synchronisation handlers                                    *)
(***************************************************************************)

MaxPos == 3                 \* positions run from 0 to MaxPos tenths of a second
MaxEvents == 2              \* events queued on the video element at a time
RateInputs == {1, 2}
SeekInputs == {0, MaxPos}

driftThreshold == 2         \* 0.2 s
legacyDriftThreshold == 1   \* 0.1 s

Abs(x) == IF x < 0 THEN -x ELSE x

MediaElementInit ==
    [currentTime |-> 0, paused |-> TRUE, seeking |-> FALSE, playbackRate |-> 1,
     volume |-> 10, muted |-> FALSE]

\* HTMLMediaElement: play() clears paused; setting currentTime starts a seek.
play(a) == [a EXCEPT !.paused = FALSE]
pause(a) == [a EXCEPT !.paused = TRUE]
setCurrentTime(a, t) == [a EXCEPT !.currentTime = t, !.seeking = TRUE]

\* syncAudio of the refactored player: the audio element after the call.
syncAudio(v, a) ==
    LET synced ==
            IF /\ Abs(v.currentTime - a.currentTime) > driftThreshold
               /\ ~v.paused /\ ~a.seeking /\ ~v.seeking
            THEN play(setCurrentTime(a, v.currentTime))
            ELSE a
    IN  [synced EXCEPT !.playbackRate = v.playbackRate, !.volume = v.volume,
                       !.muted = v.muted]

\* syncAudio of the legacy player.
legacySyncAudio(v, a) ==
    IF Abs(v.currentTime - a.currentTime) > legacyDriftThreshold
    THEN setCurrentTime(a, v.currentTime)
    ELSE a

\* The listeners of the video element, by event: the audio element after them.
handleVideoEvent(e, v, a) ==
    IF e = "play" THEN play(a)
    ELSE IF e = "pause" THEN pause(a)
    ELSE IF e = "seeking" THEN setCurrentTime(a, v.currentTime)
    ELSE IF e = "ratechange" THEN [a EXCEPT !.playbackRate = v.playbackRate]
    ELSE IF e = "volumechange" THEN [a EXCEPT !.volume = v.volume, !.muted = v.muted]
    ELSE IF playerVariant = "refactored" THEN syncAudio(v, a)
    ELSE legacySyncAudio(v, a)

queue(q, e) == Append(q, e)

\* timeupdate is queued unless one is waiting already.
queueTimeupdate(q) ==
    IF \E k \in 1..Len(q) : q[k] = "timeupdate" THEN q ELSE Append(q, "timeupdate")

SyncInit ==
    /\ playerVariant \in {"refactored", "legacy"}
    /\ video = MediaElementInit
    /\ audio = MediaElementInit
    /\ videoEvents = <<>>

\* The synchronisation handlers as the other specifications see them.
SyncIdle ==
    /\ playerVariant = "refactored"
    /\ video = MediaElementInit
    /\ audio = MediaElementInit
    /\ videoEvents = <<>>

\* The oldest queued event of the video element is dispatched.
DispatchVideoEvent ==
    /\ Len(videoEvents) > 0
    /\ audio' = handleVideoEvent(Head(videoEvents), video, audio)
    /\ videoEvents' = Tail(videoEvents)
    /\ UNCHANGED <<playerVariant, video>>

\* The user starts or pauses the video.
UserPlay ==
    /\ video.paused
    /\ Len(videoEvents) < MaxEvents
    /\ video' = play(video)
    /\ videoEvents' = queue(videoEvents, "play")
    /\ UNCHANGED <<playerVariant, audio>>

UserPause ==
    /\ ~video.paused
    /\ Len(videoEvents) < MaxEvents
    /\ video' = pause(video)
    /\ videoEvents' = queue(videoEvents, "pause")
    /\ UNCHANGED <<playerVariant, audio>>

UserSeek(t) ==
    /\ Len(videoEvents) < MaxEvents
    /\ video' = setCurrentTime(video, t)
    /\ videoEvents' = queue(videoEvents, "seeking")
    /\ UNCHANGED <<playerVariant, audio>>

UserRate(r) ==
    /\ r # video.playbackRate
    /\ Len(videoEvents) < MaxEvents
    /\ video' = [video EXCEPT !.playbackRate = r]
    /\ videoEvents' = queue(videoEvents, "ratechange")
    /\ UNCHANGED <<playerVariant, audio>>

UserMute ==
    /\ Len(videoEvents) < MaxEvents
    /\ video' = [video EXCEPT !.muted = ~video.muted]
    /\ videoEvents' = queue(videoEvents, "volumechange")
    /\ UNCHANGED <<playerVariant, audio>>

\* A seek of the video element ends: seeking is cleared, timeupdate is queued.
VideoSeeked ==
    /\ video.seeking
    /\ Len(queueTimeupdate(videoEvents)) <= MaxEvents
    /\ video' = [video EXCEPT !.seeking = FALSE]
    /\ videoEvents' = queueTimeupdate(videoEvents)
    /\ UNCHANGED <<playerVariant, audio>>

AudioSeeked ==
    /\ audio.seeking
    /\ audio' = [audio EXCEPT !.seeking = FALSE]
    /\ UNCHANGED <<playerVariant, video, videoEvents>>

\* Playback moves the video on and queues timeupdate.
VideoAdvances ==
    /\ ~video.paused /\ ~video.seeking
    /\ video.currentTime < MaxPos
    /\ Len(queueTimeupdate(videoEvents)) <= MaxEvents
    /\ video' = [video EXCEPT !.currentTime = @ + 1]
    /\ videoEvents' = queueTimeupdate(videoEvents)
    /\ UNCHANGED <<playerVariant, audio>>

AudioAdvances ==
    /\ ~audio.paused /\ ~audio.seeking
    /\ audio.currentTime < MaxPos
    /\ audio' = [audio EXCEPT !.currentTime = @ + 1]
    /\ UNCHANGED <<playerVariant, video, videoEvents>>

(***************************************************************************)
(* Tracked event listeners of the refactored player                        *)
(***************************************************************************)

MaxPlayers == 6             \* createPlayerElements is not called more often

NoHandlers == [event \in {} |-> ""]

\* Map.prototype.set: a key that is present takes the new value.
MapSetHandler(m, event, handler) ==
    [e \in DOMAIN m \cup {event} |-> IF e = event THEN handler ELSE m[e]]

\* The calls of addTrackedEventListener in replacePlayer, in program order.
Registrations ==
    << <<"video", "play", "playHandler">>,
       <<"video", "pause", "pauseHandler">>,
       <<"video", "seeking", "seekingHandler">>,
       <<"video", "ratechange", "rateChangeHandler">>,
       <<"video", "volumechange", "volumeChangeHandler">>,
       <<"video", "timeupdate", "syncAudio">>,
       <<"video", "waiting", "checkBuffering">>,
       <<"audio", "waiting", "checkBuffering">>,
       <<"video", "seeking", "checkBuffering">>,
       <<"audio", "seeking", "checkBuffering">>,
       <<"video", "playing", "checkBuffering">>,
       <<"audio", "playing", "checkBuffering">>,
       <<"video", "canplay", "checkBuffering">>,
       <<"audio", "canplay", "checkBuffering">>,
       <<"video", "canplaythrough", "checkBuffering">>,
       <<"audio", "canplaythrough", "checkBuffering">> >>

ElementTypes == {"video", "audio"}
EventNames == {Registrations[k][2] : k \in 1..Len(Registrations)}

Listener(player, type, event, handler) ==
    [player |-> player, type |-> type, event |-> event, handler |-> handler]

\* addTrackedEventListener on the registry r = [handlers, attached], for the
\* element of the given type of pair player.
addTrackedEventListener(r, player, event, handler, type) ==
    [handlers |-> [r.handlers EXCEPT ![type] = MapSetHandler(@, event, handler)],
     attached |-> r.attached \cup {Listener(player, type, event, handler)}]

RECURSIVE registerAll(_, _, _)
registerAll(r, player, k) ==
    IF k > Len(Registrations) THEN r
    ELSE registerAll(addTrackedEventListener(r, player, Registrations[k][2],
                                             Registrations[k][3], Registrations[k][1]),
                     player, k + 1)

\* cleanupPlayerEventListeners: removeEventListener for every entry of the two
\* Maps on the elements found inside the player, then fresh Maps.
cleanupPlayerEventListeners(r, existingPlayer) ==
    LET tracked == {x \in ElementTypes \X EventNames : x[2] \in DOMAIN r.handlers[x[1]]}
    IN  [handlers |-> [video |-> NoHandlers, audio |-> NoHandlers],
         attached |->
            IF existingPlayer = 0 THEN r.attached
            ELSE r.attached \
                   {Listener(existingPlayer, x[1], x[2], r.handlers[x[1]][x[2]]) :
                       x \in tracked}]

Registry == [handlers |-> playerEventHandlers, attached |-> listeners]

RegistryInit ==
    /\ playerEventHandlers = [video |-> NoHandlers, audio |-> NoHandlers]
    /\ listeners = {}
    /\ litePlayer = 0
    /\ created = 0
    /\ handled = {}

\* replacePlayer: the clean-up, then for DASH play information a new pair of
\* elements takes the place of the old one and gets its listeners.
ReplacePlayer(dash) ==
    LET cleaned == cleanupPlayerEventListeners(Registry, litePlayer)
        r == IF dash THEN registerAll(cleaned, created + 1, 1) ELSE cleaned
    IN  /\ dash => created < MaxPlayers
        /\ playerEventHandlers' = r.handlers
        /\ listeners' = r.attached
        /\ litePlayer' = IF dash THEN created + 1 ELSE litePlayer
        /\ created' = IF dash THEN created + 1 ELSE created
        /\ handled' = {}

\* reloadPlayerWithNewCDN up to its call of mainReload: the clean-up alone.
ReloadPlayerWithNewCDN ==
    LET cleaned == cleanupPlayerEventListeners(Registry, litePlayer)
    IN  /\ litePlayer # 0
        /\ playerEventHandlers' = cleaned.handlers
        /\ listeners' = cleaned.attached
        /\ handled' = {}
        /\ UNCHANGED <<litePlayer, created>>

\* An event is dispatched on an element that has a listener for it.
DispatchEvent(player, type, event) ==
    LET run == {l \in listeners :
                    l.player = player /\ l.type = type /\ l.event = event}
    IN  /\ run # {}
        /\ handled' = run
        /\ UNCHANGED <<playerEventHandlers, listeners, litePlayer, created>>

(***************************************************************************)
(* Buffering                                                               *)
(***************************************************************************)

MaxPending == 2             \* play and pause events queued at a time
ReadyStateInputs == {0, 4}  \* HAVE_NOTHING, HAVE_ENOUGH_DATA

HAVE_FUTURE_DATA == 3
minDuration == 3
rebufferGoal == 5
BufferInputs == {minDuration - 1, rebufferGoal}

BufferedElementInit == [paused |-> TRUE, seeking |-> FALSE, readyState |-> 0]

\* The condition checkBuffering of the legacy player tests.
NotReady(v, a) ==
    \/ v.readyState < HAVE_FUTURE_DATA
    \/ a.readyState < HAVE_FUTURE_DATA
    \/ v.seeking
    \/ a.seeking

Ran(handler, notReady) == [handler |-> handler, notReady |-> notReady]

\* video.pause() and video.play() queue their event when they change paused.
queuePause(q, v) == IF v.paused THEN q ELSE Append(q, "pause")
queuePlay(q, v) == IF v.paused THEN Append(q, "play") ELSE q

BufferingInit ==
    /\ bufferingVariant \in {"refactored", "legacy"}
    /\ videoElement = BufferedElementInit
    /\ audioElement = BufferedElementInit
    /\ loading = "none"
    /\ mediaEvents = <<>>
    /\ bufferAhead \in BufferInputs
    /\ state = [bufferHealth |-> 0, isOptimizing |-> FALSE]
    /\ checkBufferTimer = FALSE
    /\ pausedForBuffering = FALSE
    /\ ran = Ran("none", FALSE)

\* Buffering as the other specifications see it.
BufferingIdle ==
    /\ bufferingVariant = "refactored"
    /\ videoElement = BufferedElementInit
    /\ audioElement = BufferedElementInit
    /\ loading = "none"
    /\ mediaEvents = <<>>
    /\ bufferAhead = rebufferGoal
    /\ state = [bufferHealth |-> 0, isOptimizing |-> FALSE]
    /\ checkBufferTimer = FALSE
    /\ pausedForBuffering = FALSE
    /\ ran = Ran("none", FALSE)

\* checkBuffering, run by waiting, seeking, playing, canplay or canplaythrough
\* of either element or by the initial timer.  The refactored function only
\* computes two local buffer lengths.
CheckBuffering ==
    LET notReady == NotReady(videoElement, audioElement)
        audioPlayed == IF videoElement.paused THEN audioElement ELSE play(audioElement)
    IN  /\ Len(mediaEvents) < MaxPending
        /\ ran' = Ran("checkBuffering", notReady)
        /\ IF bufferingVariant = "refactored"
           THEN UNCHANGED <<videoElement, audioElement, loading, mediaEvents,
                            pausedForBuffering>>
           ELSE IF notReady
           THEN /\ loading' = "flex"
                /\ videoElement' = pause(videoElement)
                /\ audioElement' = pause(audioElement)
                /\ mediaEvents' = queuePause(mediaEvents, videoElement)
                /\ pausedForBuffering' = (pausedForBuffering \/ ~videoElement.paused)
           ELSE /\ loading' = "none"
                /\ audioElement' = audioPlayed
                /\ videoElement' = IF audioPlayed.paused THEN videoElement
                                   ELSE play(videoElement)
                /\ mediaEvents' = IF audioPlayed.paused THEN mediaEvents
                                  ELSE queuePlay(mediaEvents, videoElement)
                /\ UNCHANGED pausedForBuffering
        /\ UNCHANGED <<bufferingVariant, bufferAhead, state, checkBufferTimer>>

\* playHandler and pauseHandler: the oldest queued event is dispatched.
DispatchMediaEvent ==
    /\ Len(mediaEvents) > 0
    /\ audioElement' = IF Head(mediaEvents) = "play" THEN play(audioElement)
                       ELSE pause(audioElement)
    /\ mediaEvents' = Tail(mediaEvents)
    /\ ran' = Ran(Head(mediaEvents), FALSE)
    /\ UNCHANGED <<bufferingVariant, videoElement, loading, bufferAhead, state,
                   checkBufferTimer, pausedForBuffering>>

\* The user presses play or pause on the video element.
UserPlays ==
    /\ videoElement.paused
    /\ Len(mediaEvents) < MaxPending
    /\ videoElement' = play(videoElement)
    /\ mediaEvents' = Append(mediaEvents, "play")
    /\ pausedForBuffering' = FALSE
    /\ ran' = Ran("user", FALSE)
    /\ UNCHANGED <<bufferingVariant, audioElement, loading, bufferAhead, state,
                   checkBufferTimer>>

UserPauses ==
    /\ ~videoElement.paused
    /\ Len(mediaEvents) < MaxPending
    /\ videoElement' = pause(videoElement)
    /\ mediaEvents' = Append(mediaEvents, "pause")
    /\ ran' = Ran("user", FALSE)
    /\ UNCHANGED <<bufferingVariant, audioElement, loading, bufferAhead, state,
                   checkBufferTimer, pausedForBuffering>>

\* The browser: readiness, seeking and the buffered range of the elements.
ReadinessChanges(type, readyState) ==
    /\ IF type = "video"
       THEN /\ readyState # videoElement.readyState
            /\ videoElement' = [videoElement EXCEPT !.readyState = readyState]
            /\ UNCHANGED audioElement
       ELSE /\ readyState # audioElement.readyState
            /\ audioElement' = [audioElement EXCEPT !.readyState = readyState]
            /\ UNCHANGED videoElement
    /\ ran' = Ran("none", FALSE)
    /\ UNCHANGED <<bufferingVariant, loading, mediaEvents, bufferAhead, state,
                   checkBufferTimer, pausedForBuffering>>

SeekingChanges(type) ==
    /\ IF type = "video"
       THEN /\ videoElement' = [videoElement EXCEPT !.seeking = ~@]
            /\ UNCHANGED audioElement
       ELSE /\ audioElement' = [audioElement EXCEPT !.seeking = ~@]
            /\ UNCHANGED videoElement
    /\ ran' = Ran("none", FALSE)
    /\ UNCHANGED <<bufferingVariant, loading, mediaEvents, bufferAhead, state,
                   checkBufferTimer, pausedForBuffering>>

BufferChanges(seconds) ==
    /\ seconds # bufferAhead
    /\ bufferAhead' = seconds
    /\ ran' = Ran("none", FALSE)
    /\ UNCHANGED <<bufferingVariant, videoElement, audioElement, loading, mediaEvents,
                   state, checkBufferTimer, pausedForBuffering>>

\* updateBufferHealth, run by progress of the video element.
UpdateBufferHealth ==
    /\ bufferingVariant = "legacy"
    /\ state' = [state EXCEPT !.bufferHealth = bufferAhead]
    /\ ran' = Ran("updateBufferHealth", FALSE)
    /\ UNCHANGED <<bufferingVariant, videoElement, audioElement, loading, mediaEvents,
                   bufferAhead, checkBufferTimer, pausedForBuffering>>

\* The interval of startBufferMonitoring: updateBufferHealth, then
\* checkBufferStatus, which calls handleLowBuffer below minDuration.
BufferMonitorTick ==
    LET low == bufferAhead < minDuration
        handles == low /\ ~state.isOptimizing
        pauses == handles /\ ~videoElement.paused
    IN  /\ bufferingVariant = "legacy"
        /\ Len(mediaEvents) < MaxPending
        /\ state' = [bufferHealth |-> bufferAhead,
                     isOptimizing |-> state.isOptimizing \/ handles]
        /\ videoElement' = IF pauses THEN pause(videoElement) ELSE videoElement
        /\ mediaEvents' = IF pauses THEN Append(mediaEvents, "pause") ELSE mediaEvents
        /\ checkBufferTimer' = (checkBufferTimer \/ pauses)
        /\ pausedForBuffering' = (pausedForBuffering \/ pauses)
        /\ ran' = Ran("checkBufferStatus", FALSE)
        /\ UNCHANGED <<bufferingVariant, audioElement, loading, bufferAhead>>

\* checkBuffer of handleLowBuffer, run by its timer: play and finish at
\* rebufferGoal, otherwise look again later.
CheckBufferFires ==
    LET recovered == state.bufferHealth >= rebufferGoal
    IN  /\ checkBufferTimer
        /\ Len(mediaEvents) < MaxPending
        /\ videoElement' = IF recovered THEN play(videoElement) ELSE videoElement
        /\ mediaEvents' = IF recovered THEN queuePlay(mediaEvents, videoElement)
                          ELSE mediaEvents
        /\ state' = IF recovered THEN [state EXCEPT !.isOptimizing = FALSE] ELSE state
        /\ checkBufferTimer' = ~recovered
        /\ ran' = Ran("checkBuffer", FALSE)
        /\ UNCHANGED <<bufferingVariant, audioElement, loading, bufferAhead,
                       pausedForBuffering>>

NoEvent == [kind |-> "none", sess |-> 0, task |-> NoTask, stored |-> NoTask, buf |-> <<>>]

activeSize(act) == Cardinality({i \in SegIds : act[i] # 0})

\* The byte range a download object asks for.
RangeOf(t) == calculateSegments(sessTotal[t[1]])[t[2] + 1]

\* startSegmentDownload on the scheduling state st, for download object d.
startSegmentDownload(st, d) ==
    LET st1 == [st EXCEPT !.act[d[2]] = d[1], !.req[d] = @ + 1]
    IN  IF st.avail > 0
        THEN [st1 EXCEPT !.avail = @ - 1, !.nw[d] = @ + 1]
        ELSE [st1 EXCEPT !.nm[d] = @ + 1]

\* processDownloadQueue: shift and start while a slot is free.
RECURSIVE processDownloadQueue(_)
processDownloadQueue(st) ==
    IF Len(st.q) > 0 /\ activeSize(st.act) < st.max
    THEN processDownloadQueue(startSegmentDownload([st EXCEPT !.q = Tail(@)], Head(st.q)))
    ELSE st

SchedState(q, act, avail, nm, nw) ==
    [q |-> q, act |-> act, avail |-> avail, nm |-> nm, nw |-> nw,
     req |-> requests, max |-> maxConcurrentDownloads]

\* Map.set on downloadedSegments: an existing key keeps its position.
MapSet(m, rec) ==
    IF \E k \in 1..Len(m) : m[k].id = rec.id
    THEN [k \in 1..Len(m) |-> IF m[k].id = rec.id THEN rec ELSE m[k]]
    ELSE Append(m, rec)

\* The bytes of a stored segment: the byte at offset o is written o.
BytesOf(rec) == [k \in 1..(rec.end - rec.start + 1) |-> rec.start + k - 1]

\* Array.prototype.sort with the comparator a.range.start - b.range.start
\* (stable: entries with equal start keep their insertion order).
RECURSIVE SortByStart(_)
SortByStart(m) ==
    IF Len(m) = 0 THEN <<>>
    ELSE LET k == CHOOSE k \in 1..Len(m) :
                     /\ \A j \in 1..Len(m) : m[k].start <= m[j].start
                     /\ \A j \in 1..(k - 1) : m[j].start # m[k].start
             rest == [j \in 1..(Len(m) - 1) |-> IF j < k THEN m[j] ELSE m[j + 1]]
         IN  <<m[k]>> \o SortByStart(rest)

RECURSIVE Concat(_)
Concat(m) == IF Len(m) = 0 THEN <<>> ELSE BytesOf(Head(m)) \o Concat(Tail(m))

\* The merge without its last segment, as a variant to compare.
mergeAllButLast(m) == Concat(SubSeq(SortByStart(m), 1, Len(m) - 1))

\* mergeSegments: sort by range.start, then copy the segments one after another.
mergeSegments(m) == Concat(SortByStart(m))

LoaderInit ==
    /\ maxConcurrentDownloads = DefaultMaxConcurrent
    /\ isLoading = FALSE
    /\ downloadQueue = <<>>
    /\ activeDownloads = [i \in SegIds |-> 0]
    /\ downloadedSegments = <<>>
    /\ downloadedBytes = 0
    /\ totalBytes = 0
    /\ retries = [t \in Tasks |-> 0]
    /\ workerPool \in {0, DefaultMaxConcurrent}
    /\ availableWorkers = workerPool
    /\ netMain = [t \in Tasks |-> 0]
    /\ netWorker = [t \in Tasks |-> 0]
    /\ retryTimers = [t \in Tasks |-> 0]
    /\ monitors = {}
    /\ nSessions = 0
    /\ sessTotal = [s \in Sessions |-> 0]
    /\ cancelled = {}
    /\ requests = [t \in Tasks |-> 0]
    /\ errors = [t \in Tasks |-> 0]
    /\ failed = {}
    /\ nFailures = 0
    /\ succeeded = {}
    /\ ev = NoEvent

\* startDownload(url, totalSize, onProgress, onComplete) with a known totalSize.
StartDownload(totalSize) ==
    /\ nSessions < MaxSessions
    /\ IF isLoading
       THEN /\ ev' = [NoEvent EXCEPT !.kind = "startIgnored"]
            /\ UNCHANGED <<maxConcurrentDownloads, isLoading, downloadQueue,
                           activeDownloads, downloadedSegments, downloadedBytes,
                           totalBytes, retries, workerPool, availableWorkers, netMain,
                           netWorker, retryTimers, monitors, nSessions, sessTotal,
                           cancelled, requests, errors, failed, nFailures, succeeded>>
       ELSE LET s == nSessions + 1
                segs == calculateSegments(totalSize)
                pushed == downloadQueue \o [k \in 1..Len(segs) |-> <<s, segs[k].id>>]
                st == processDownloadQueue(
                          SchedState(pushed, activeDownloads, availableWorkers,
                                     netMain, netWorker))
            IN  /\ isLoading' = TRUE
                /\ downloadedBytes' = 0
                /\ downloadedSegments' = <<>>
                /\ totalBytes' = totalSize
                /\ nSessions' = s
                /\ sessTotal' = [sessTotal EXCEPT ![s] = totalSize]
                /\ downloadQueue' = st.q
                /\ activeDownloads' = st.act
                /\ availableWorkers' = st.avail
                /\ netMain' = st.nm
                /\ netWorker' = st.nw
                /\ requests' = st.req
                /\ monitors' = monitors \cup {s}
                /\ ev' = NoEvent
                /\ UNCHANGED <<maxConcurrentDownloads, retries, workerPool, retryTimers,
                               cancelled, errors, failed, nFailures, succeeded>>

\* activeDownloads.delete(id), with every entry gone as a variant to compare.
clearActiveDownloads(act, id) == [i \in SegIds |-> 0]

deleteActiveDownload(act, id) == [act EXCEPT ![id] = 0]

\* handleWorkerMessage for the response to a request that download object t
\* issued; via = "worker" is worker.onmessage (followed by releaseWorker),
\* via = "main" is the continuation of downloadSegmentInMainThread.
HandleWorkerMessage(t, ok, via) ==
    /\ IF via = "main" THEN netMain[t] > 0 ELSE netWorker[t] > 0
    /\ ok \/ nFailures < MaxFailures
    /\ nFailures' = IF ok THEN nFailures ELSE nFailures + 1
    /\ LET id == t[2]
           owner == activeDownloads[id]
           d == <<owner, id>>
           nm1 == IF via = "main" THEN [netMain EXCEPT ![t] = @ - 1] ELSE netMain
           nw1 == IF via = "worker" THEN [netWorker EXCEPT ![t] = @ - 1] ELSE netWorker
           release == IF via = "worker" THEN 1 ELSE 0
       IN  /\ failed' = IF ok THEN failed ELSE failed \cup {t}
           /\ succeeded' = IF ok THEN succeeded \cup {t} ELSE succeeded
           /\ IF owner = 0
              THEN /\ netMain' = nm1
                   /\ netWorker' = nw1
                   /\ availableWorkers' = availableWorkers + release
                   /\ ev' = NoEvent
                   /\ UNCHANGED <<downloadQueue, activeDownloads, downloadedSegments,
                                  downloadedBytes, retries, retryTimers, requests, errors>>
              ELSE LET willRetry == ~ok /\ retries[d] < retryAttempts
                       st == processDownloadQueue(
                                 SchedState(downloadQueue,
                                            deleteActiveDownload(activeDownloads, id),
                                            availableWorkers, nm1, nw1))
                       rec == [id |-> id, start |-> RangeOf(t).start,
                               end |-> RangeOf(t).end, src |-> t]
                   IN  /\ downloadedSegments' =
                              IF ok THEN MapSet(downloadedSegments, rec)
                              ELSE downloadedSegments
                       /\ downloadedBytes' =
                              IF ok THEN downloadedBytes + (rec.end - rec.start + 1)
                              ELSE downloadedBytes
                       /\ retries' = IF willRetry THEN [retries EXCEPT ![d] = @ + 1]
                                     ELSE retries
                       /\ retryTimers' = IF willRetry
                                         THEN [retryTimers EXCEPT ![d] = @ + 1]
                                         ELSE retryTimers
                       /\ errors' = IF ~ok /\ ~willRetry
                                    THEN [errors EXCEPT ![d] = @ + 1]
                                    ELSE errors
                       /\ downloadQueue' = st.q
                       /\ activeDownloads' = st.act
                       /\ availableWorkers' = st.avail + release
                       /\ netMain' = st.nm
                       /\ netWorker' = st.nw
                       /\ requests' = st.req
                       /\ ev' = IF ok
                                THEN [NoEvent EXCEPT !.kind = "progress", !.sess = owner,
                                                     !.task = d, !.stored = t]
                                ELSE IF willRetry
                                THEN NoEvent
                                ELSE [NoEvent EXCEPT !.kind = "error", !.sess = owner,
                                                     !.task = d]
    /\ UNCHANGED <<maxConcurrentDownloads, isLoading, totalBytes, workerPool, monitors,
                   nSessions, sessTotal, cancelled>>

\* worker.onerror for the request of download object t: the worker is released
\* and nothing else happens, the entry in activeDownloads stays.
WorkerError(t) ==
    /\ netWorker[t] > 0
    /\ netWorker' = [netWorker EXCEPT ![t] = @ - 1]
    /\ availableWorkers' = availableWorkers + 1
    /\ ev' = NoEvent
    /\ UNCHANGED <<maxConcurrentDownloads, isLoading, downloadQueue, activeDownloads,
                   downloadedSegments, downloadedBytes, totalBytes, retries, workerPool,
                   netMain, retryTimers, monitors, nSessions, sessTotal, cancelled,
                   requests, errors, failed, nFailures, succeeded>>

\* The retry timer of download object t fires: retryDownload(t).
RetryDownload(t) ==
    /\ retryTimers[t] > 0
    /\ LET st == processDownloadQueue(
                     SchedState(<<t>> \o downloadQueue, activeDownloads,
                                availableWorkers, netMain, netWorker))
       IN  /\ retryTimers' = [retryTimers EXCEPT ![t] = @ - 1]
           /\ downloadQueue' = st.q
           /\ activeDownloads' = st.act
           /\ availableWorkers' = st.avail
           /\ netMain' = st.nm
           /\ netWorker' = st.nw
           /\ requests' = st.req
           /\ ev' = NoEvent
    /\ UNCHANGED <<maxConcurrentDownloads, isLoading, downloadedSegments, downloadedBytes,
                   totalBytes, retries, workerPool, monitors, nSessions, sessTotal,
                   cancelled, errors, failed, nFailures, succeeded>>

\* checkCompletion of session s finds nothing active and nothing queued.
\* (Otherwise it re-arms its 100 ms timer and changes nothing.)
MonitorDownloadCompletion(s) ==
    /\ s \in monitors
    /\ activeSize(activeDownloads) = 0
    /\ Len(downloadQueue) = 0
    /\ isLoading' = FALSE
    /\ monitors' = monitors \ {s}
    /\ ev' = [NoEvent EXCEPT !.kind = "complete", !.sess = s,
                             !.buf = mergeSegments(downloadedSegments)]
    /\ UNCHANGED <<maxConcurrentDownloads, downloadQueue, activeDownloads,
                   downloadedSegments, downloadedBytes, totalBytes, retries, workerPool,
                   availableWorkers, netMain, netWorker, retryTimers, nSessions,
                   sessTotal, cancelled, requests, errors, failed, nFailures, succeeded>>

\* stopDownload: the queue and the active map are emptied and every worker is
\* terminated (a terminated worker posts no message); fetches issued by the
\* main thread are not aborted, and no timer is cleared.
StopDownload ==
    /\ isLoading' = FALSE
    /\ downloadQueue' = <<>>
    /\ activeDownloads' = [i \in SegIds |-> 0]
    /\ workerPool' = 0
    /\ availableWorkers' = 0
    /\ netWorker' = [t \in Tasks |-> 0]
    /\ cancelled' = cancelled \cup {IF isLoading THEN nSessions ELSE 0}
    /\ ev' = NoEvent
    /\ UNCHANGED <<maxConcurrentDownloads, downloadedSegments, downloadedBytes, totalBytes,
                   retries, netMain, retryTimers, monitors, nSessions, sessTotal,
                   requests, errors, failed, nFailures, succeeded>>

\* setConfig({maxConcurrentDownloads: n})
SetConfig(n) ==
    /\ maxConcurrentDownloads' = Max(1, Min(8, n))
    /\ maxConcurrentDownloads' # maxConcurrentDownloads
    /\ ev' = NoEvent
    /\ UNCHANGED <<isLoading, downloadQueue, activeDownloads, downloadedSegments,
                   downloadedBytes, totalBytes, retries, workerPool, availableWorkers,
                   netMain, netWorker, retryTimers, monitors, nSessions, sessTotal,
                   cancelled, requests, errors, failed, nFailures, succeeded>>

LoaderNext ==
    \/ \E totalSize \in TotalSizes : StartDownload(totalSize) /\ UNCHANGED <<preloaderVars, aqVars, syncVars, registryVars, bufferingVars, configVars, planVars>>
    \/ \E t \in Tasks, ok \in BOOLEAN, via \in {"main", "worker"} :
           HandleWorkerMessage(t, ok, via) /\ UNCHANGED <<preloaderVars, aqVars, syncVars, registryVars, bufferingVars, configVars, planVars>>
    \/ \E t \in Tasks : RetryDownload(t) /\ UNCHANGED <<preloaderVars, aqVars, syncVars, registryVars, bufferingVars, configVars, planVars>>
    \/ \E s \in Sessions : MonitorDownloadCompletion(s) /\ UNCHANGED <<preloaderVars, aqVars, syncVars, registryVars, bufferingVars, configVars, planVars>>
    \/ StopDownload /\ UNCHANGED <<preloaderVars, aqVars, syncVars, registryVars, bufferingVars, configVars, planVars>>
    \/ \E n \in ConcurrencyInputs : SetConfig(n) /\ UNCHANGED <<preloaderVars, aqVars, syncVars, registryVars, bufferingVars, configVars, planVars>>

(***************************************************************************)
(* MediaPreloader operations                                               *)
(***************************************************************************)

\* config[type].maxCacheSize (50 MB and 10 MB), scaled to the sizes below.
maxCacheSize == [video |-> 3, audio |-> 2]

\* Sizes of the bodies of 206 responses to single-thread preload requests.
DataSizes == 1..MaxDataSize

\* Values of element.currentTime seen by the timeupdate listener.
PlaybackTimes == {0, 310}

\* Math.floor(time / 2) * 2
SegmentKey(time) == (time \div 2) * 2

CacheTotal(m) == SumOver([k \in 1..Len(m) |-> m[k].size], 1..Len(m))

\* Map.set on a segment cache: an existing key keeps its position.
CacheSet(m, e) ==
    IF \E k \in 1..Len(m) : m[k].key = e.key
    THEN [k \in 1..Len(m) |-> IF m[k].key = e.key THEN e ELSE m[k]]
    ELSE Append(m, e)

isSegmentCached(m, time) == \E k \in 1..Len(m) : m[k].key = SegmentKey(time)

\* A clean-up that deletes nothing.
keepExpired(m, cur) == m

\* cleanupCache of the current preloader: drop the segments more than 300 s
\* behind the playback position.
Expired(e, cur) == e.key < cur - 300
cleanupCache(m, cur) == SelectSeq(m, LAMBDA e : ~Expired(e, cur))

\* cacheSegment of the current preloader.
cacheSegment(m, time, size, stamp, maxSize, cur) ==
    LET m1 == CacheSet(m, [key |-> SegmentKey(time), size |-> size, timestamp |-> stamp])
    IN  IF CacheTotal(m1) > maxSize THEN cleanupCache(m1, cur) ELSE m1

\* Array.prototype.sort by timestamp (stable).
RECURSIVE SortByTimestamp(_)
SortByTimestamp(m) ==
    IF Len(m) = 0 THEN <<>>
    ELSE LET k == CHOOSE k \in 1..Len(m) :
                     /\ \A j \in 1..Len(m) : m[k].timestamp <= m[j].timestamp
                     /\ \A j \in 1..(k - 1) : m[j].timestamp # m[k].timestamp
             rest == [j \in 1..(Len(m) - 1) |-> IF j < k THEN m[j] ELSE m[j + 1]]
         IN  <<m[k]>> \o SortByTimestamp(rest)

\* The loop of the legacy cleanupCache: keys deleted while the total exceeds
\* maxSize, taking the entries oldest first.
RECURSIVE EvictedKeys(_, _, _)
EvictedKeys(sorted, total, maxSize) ==
    IF total > maxSize /\ Len(sorted) > 0
    THEN {Head(sorted).key} \cup EvictedKeys(Tail(sorted), total - Head(sorted).size, maxSize)
    ELSE {}

\* cleanupCache of the legacy preloader.
legacyCleanupCache(m, maxSize) ==
    LET gone == EvictedKeys(SortByTimestamp(m), CacheTotal(m), maxSize)
    IN  SelectSeq(m, LAMBDA e : e.key \notin gone)

\* cacheSegment of the legacy preloader.
legacyCacheSegment(m, time, size, stamp, maxSize) ==
    legacyCleanupCache(
        CacheSet(m, [key |-> SegmentKey(time), size |-> size, timestamp |-> stamp]),
        maxSize)

\* estimatedSize of preloadWithMultiThread, one unit per second of media.
EstimatedSize(type) == preloadDuration[type]

PreloaderInit ==
    /\ variant \in {"current", "legacy"}
    /\ enabled = [type \in Types |-> TRUE]
    /\ useMultiThread = [type \in Types |-> FALSE]
    /\ preloadDuration = [video |-> 3, audio |-> 10]
    /\ isPreloading = FALSE
    /\ currentTime = [type \in Types |-> 0]
    /\ segments = [type \in Types |-> <<>>]
    /\ fetches = <<>>
    /\ sessTarget = [s \in Sessions |-> 0]
    /\ clock = 0
    /\ stopped = FALSE
    /\ unserved = [type \in Types |-> {}]

\* The preloader as the loader-only specification sees it: never used.
PreloaderIdle ==
    /\ variant = "current"
    /\ enabled = [type \in Types |-> FALSE]
    /\ useMultiThread = [type \in Types |-> FALSE]
    /\ preloadDuration = [video |-> 3, audio |-> 10]
    /\ isPreloading = FALSE
    /\ currentTime = [type \in Types |-> 0]
    /\ segments = [type \in Types |-> <<>>]
    /\ fetches = <<>>
    /\ sessTarget = [s \in Sessions |-> 0]
    /\ clock = 0
    /\ stopped = FALSE
    /\ unserved = [type \in Types |-> {}]

(***************************************************************************)
(* setConfig of MultiThreadLoader and of MediaPreloader                    *)
(***************************************************************************)

\* An optional field of a config object: {} when the key is undefined,
\* {x} when it holds x.
Optional(values) == {{}} \cup {{x} : x \in values}
Given(field) == CHOOSE x \in field : TRUE

\* Math.max(1, Math.min(8, n)), with the value passed through as a variant to
\* compare.
unlimitedConcurrentDownloads(n) == n
limitConcurrentDownloads(n) == Max(1, Min(8, n))

SegmentSizeInputs == {0, 4194304}
RetryInputs == {-1, 5}
TimeoutInputs == {0, 60000}
VideoDurationInputs == {0, 301}
AudioDurationInputs == {9, 601}

LoaderConfigInputs ==
    [maxConcurrentDownloads : Optional(ConcurrencyInputs),
     segmentSize : Optional(SegmentSizeInputs),
     retryAttempts : Optional(RetryInputs),
     timeout : Optional(TimeoutInputs)]

PreloaderKeys ==
    {"videoDuration", "audioDuration", "videoEnabled", "audioEnabled",
     "videoUseMultiThread", "audioUseMultiThread",
     "videoMaxConcurrentDownloads", "audioMaxConcurrentDownloads"}

\* Config objects for MediaPreloader.setConfig with at most one key set.
PreloaderConfigInputs ==
    {c \in [videoDuration : Optional(VideoDurationInputs),
            audioDuration : Optional(AudioDurationInputs),
            videoEnabled : Optional(BOOLEAN),
            audioEnabled : Optional(BOOLEAN),
            videoUseMultiThread : Optional(BOOLEAN),
            audioUseMultiThread : Optional(BOOLEAN),
            videoMaxConcurrentDownloads : Optional(ConcurrencyInputs),
            audioMaxConcurrentDownloads : Optional(ConcurrencyInputs)] :
        Cardinality({key \in PreloaderKeys : c[key] # {}}) <= 1}

\* The loader configuration after initializeLoaders: the constructor's
\* retryAttempts and timeout, the video stream's segmentSize.
NoLoaderConfig == [maxConcurrentDownloads |-> {}, segmentSize |-> {},
                   retryAttempts |-> {}, timeout |-> {}]

NoPreloaderConfig == [key \in PreloaderKeys |-> {}]

NoCall == [on |-> "none", loader |-> NoLoaderConfig, preloader |-> NoPreloaderConfig]

MaxCalls == 2               \* setConfig calls in a run

ConfigInit ==
    /\ loaderConfig = [segmentSize |-> 2097152, retryAttempts |-> 3, timeout |-> 30000]
    /\ preloaderConcurrency = [video |-> 8, audio |-> 6]
    /\ lastCall = NoCall
    /\ calls = 0

\* MultiThreadLoader.setConfig(config) on the state lc = the four fields.
loaderSetConfig(lc, config) ==
    [maxConcurrentDownloads |->
         IF config.maxConcurrentDownloads # {}
         THEN limitConcurrentDownloads(Given(config.maxConcurrentDownloads))
         ELSE lc.maxConcurrentDownloads,
     segmentSize |->
         IF config.segmentSize # {}
         THEN Max(256 * 1024, Given(config.segmentSize))
         ELSE lc.segmentSize,
     retryAttempts |->
         IF config.retryAttempts # {}
         THEN Max(0, Given(config.retryAttempts))
         ELSE lc.retryAttempts,
     timeout |->
         IF config.timeout # {}
         THEN Max(5000, Given(config.timeout))
         ELSE lc.timeout]

\* The four fields as the variables hold them.
LoaderConfig ==
    [maxConcurrentDownloads |-> maxConcurrentDownloads,
     segmentSize |-> loaderConfig.segmentSize,
     retryAttempts |-> loaderConfig.retryAttempts,
     timeout |-> loaderConfig.timeout]

LoaderSetConfig(config) ==
    LET lc == loaderSetConfig(LoaderConfig, config)
    IN  /\ calls < MaxCalls
        /\ calls' = calls + 1
        /\ lastCall' = [NoCall EXCEPT !.on = "loader", !.loader = config]
        /\ maxConcurrentDownloads' = lc.maxConcurrentDownloads
        /\ loaderConfig' = [segmentSize |-> lc.segmentSize,
                            retryAttempts |-> lc.retryAttempts,
                            timeout |-> lc.timeout]
        /\ ev' = NoEvent
        /\ UNCHANGED <<isLoading, downloadQueue, activeDownloads, downloadedSegments,
                       downloadedBytes, totalBytes, retries, workerPool, availableWorkers,
                       netMain, netWorker, retryTimers, monitors, nSessions, sessTotal,
                       cancelled, requests, errors, failed, nFailures, succeeded>>
        /\ UNCHANGED <<preloaderVars, preloaderConcurrency>>

\* MediaPreloader.setConfig(config), updateLoaderConfigs included; the
\* video stream's segmentSize is the constructor's 2 MiB.  saveConfig writes
\* localStorage only.
PreloaderSetConfig(config) ==
    LET concurrency ==
            [video |-> IF config.videoMaxConcurrentDownloads # {}
                       THEN limitConcurrentDownloads(Given(config.videoMaxConcurrentDownloads))
                       ELSE preloaderConcurrency["video"],
             audio |-> IF config.audioMaxConcurrentDownloads # {}
                       THEN limitConcurrentDownloads(Given(config.audioMaxConcurrentDownloads))
                       ELSE preloaderConcurrency["audio"]]
        lc == loaderSetConfig(LoaderConfig,
                  [NoLoaderConfig EXCEPT !.maxConcurrentDownloads = {concurrency["video"]},
                                         !.segmentSize = {2 * 1024 * 1024}])
    IN  /\ calls < MaxCalls
        /\ calls' = calls + 1
        /\ lastCall' = [NoCall EXCEPT !.on = "preloader", !.preloader = config]
        /\ preloadDuration' =
               [video |-> IF config.videoDuration # {}
                          THEN Max(1, Min(300, Given(config.videoDuration)))
                          ELSE preloadDuration["video"],
                audio |-> IF config.audioDuration # {}
                          THEN Max(10, Min(600, Given(config.audioDuration)))
                          ELSE preloadDuration["audio"]]
        /\ enabled' =
               [video |-> IF config.videoEnabled # {} THEN Given(config.videoEnabled)
                          ELSE enabled["video"],
                audio |-> IF config.audioEnabled # {} THEN Given(config.audioEnabled)
                          ELSE enabled["audio"]]
        /\ useMultiThread' =
               [video |-> IF config.videoUseMultiThread # {}
                          THEN Given(config.videoUseMultiThread)
                          ELSE useMultiThread["video"],
                audio |-> IF config.audioUseMultiThread # {}
                          THEN Given(config.audioUseMultiThread)
                          ELSE useMultiThread["audio"]]
        /\ preloaderConcurrency' = concurrency
        /\ maxConcurrentDownloads' = lc.maxConcurrentDownloads
        /\ loaderConfig' = [segmentSize |-> lc.segmentSize,
                            retryAttempts |-> lc.retryAttempts,
                            timeout |-> lc.timeout]
        /\ ev' = NoEvent
        /\ UNCHANGED <<isLoading, downloadQueue, activeDownloads, downloadedSegments,
                       downloadedBytes, totalBytes, retries, workerPool, availableWorkers,
                       netMain, netWorker, retryTimers, monitors, nSessions, sessTotal,
                       cancelled, requests, errors, failed, nFailures, succeeded>>
        /\ UNCHANGED <<variant, isPreloading, currentTime, segments, fetches, sessTarget,
                       clock, stopped, unserved>>

\* A preloader as constructed and initialized with both loaders, configured
\* before playback starts.
ConfigSpecInit ==
    /\ LoaderInit /\ workerPool = 0
    /\ variant = "current"
    /\ enabled = [type \in Types |-> TRUE]
    /\ useMultiThread = [type \in Types |-> TRUE]
    /\ preloadDuration = [video |-> 5, audio |-> 60]
    /\ isPreloading = FALSE
    /\ currentTime = [type \in Types |-> 0]
    /\ segments = [type \in Types |-> <<>>]
    /\ fetches = <<>>
    /\ sessTarget = [s \in Sessions |-> 0]
    /\ clock = 0
    /\ stopped = FALSE
    /\ unserved = [type \in Types |-> {}]
    /\ AdaptiveQualityInit /\ SyncIdle /\ RegistryInit /\ BufferingIdle /\ ConfigInit /\ PlanIdle

ConfigNext ==
    \/ \E config \in LoaderConfigInputs :
           LoaderSetConfig(config) /\ UNCHANGED <<aqVars, syncVars, registryVars, bufferingVars, planVars>>
    \/ \E config \in PreloaderConfigInputs :
           PreloaderSetConfig(config) /\ UNCHANGED <<aqVars, syncVars, registryVars, bufferingVars, planVars>>

ConfigSpec == ConfigSpecInit /\ [][ConfigNext]_vars

LoaderSpecInit == LoaderInit /\ PreloaderIdle /\ AdaptiveQualityInit /\ SyncIdle /\ RegistryInit /\ BufferingIdle /\ ConfigInit /\ PlanIdle

LoaderSpec == LoaderSpecInit /\ [][LoaderNext]_vars

\* startDownload calls on an idle loader, for every size argument and every
\* outcome of the HEAD request.
PlanSpec == LoaderSpecInit /\ [][PlanNext]_vars

\* One session on a fresh loader: it is started once and never stopped, its
\* requests end in a message or in a worker error.
SessionNext ==
    \/ \E totalSize \in TotalSizes :
           nSessions = 0 /\ StartDownload(totalSize) /\ UNCHANGED <<preloaderVars, aqVars, syncVars, registryVars, bufferingVars, configVars, planVars>>
    \/ \E t \in Tasks, ok \in BOOLEAN, via \in {"main", "worker"} :
           HandleWorkerMessage(t, ok, via) /\ UNCHANGED <<preloaderVars, aqVars, syncVars, registryVars, bufferingVars, configVars, planVars>>
    \/ \E t \in Tasks : WorkerError(t) /\ UNCHANGED <<preloaderVars, aqVars, syncVars, registryVars, bufferingVars, configVars, planVars>>
    \/ \E t \in Tasks : RetryDownload(t) /\ UNCHANGED <<preloaderVars, aqVars, syncVars, registryVars, bufferingVars, configVars, planVars>>
    \/ \E s \in Sessions : MonitorDownloadCompletion(s) /\ UNCHANGED <<preloaderVars, aqVars, syncVars, registryVars, bufferingVars, configVars, planVars>>
    \/ \E n \in ConcurrencyInputs : SetConfig(n) /\ UNCHANGED <<preloaderVars, aqVars, syncVars, registryVars, bufferingVars, configVars, planVars>>

\* Every issued request ends, every timer fires.
notLoader == <<preloaderVars, aqVars, syncVars, registryVars, bufferingVars, configVars, planVars>>

SessionFairness ==
    /\ \A t \in Tasks, via \in {"main", "worker"} :
           WF_vars(/\ \/ \E ok \in BOOLEAN : HandleWorkerMessage(t, ok, via)
                      \/ WorkerError(t)
                   /\ UNCHANGED notLoader)
    /\ \A t \in Tasks : WF_vars(RetryDownload(t) /\ UNCHANGED notLoader)
    /\ \A s \in Sessions : WF_vars(MonitorDownloadCompletion(s) /\ UNCHANGED notLoader)

SessionSpec == LoaderSpecInit /\ [][SessionNext]_vars /\ SessionFairness

\* The same session when no worker raises an error: every request ends in a
\* message.
ResponsiveNext ==
    \/ \E totalSize \in TotalSizes :
           nSessions = 0 /\ StartDownload(totalSize) /\ UNCHANGED <<preloaderVars, aqVars, syncVars, registryVars, bufferingVars, configVars, planVars>>
    \/ \E t \in Tasks, ok \in BOOLEAN, via \in {"main", "worker"} :
           HandleWorkerMessage(t, ok, via) /\ UNCHANGED <<preloaderVars, aqVars, syncVars, registryVars, bufferingVars, configVars, planVars>>
    \/ \E t \in Tasks : RetryDownload(t) /\ UNCHANGED <<preloaderVars, aqVars, syncVars, registryVars, bufferingVars, configVars, planVars>>
    \/ \E s \in Sessions : MonitorDownloadCompletion(s) /\ UNCHANGED <<preloaderVars, aqVars, syncVars, registryVars, bufferingVars, configVars, planVars>>
    \/ \E n \in ConcurrencyInputs : SetConfig(n) /\ UNCHANGED <<preloaderVars, aqVars, syncVars, registryVars, bufferingVars, configVars, planVars>>

ResponsiveFairness ==
    /\ \A t \in Tasks, via \in {"main", "worker"} :
           WF_vars((\E ok \in BOOLEAN : HandleWorkerMessage(t, ok, via))
                       /\ UNCHANGED notLoader)
    /\ \A t \in Tasks : WF_vars(RetryDownload(t) /\ UNCHANGED notLoader)
    /\ \A s \in Sessions : WF_vars(MonitorDownloadCompletion(s) /\ UNCHANGED notLoader)

ResponsiveSpec == LoaderSpecInit /\ [][ResponsiveNext]_vars /\ ResponsiveFairness


\* The timeupdate listener of the element of `type`: record the position,
\* then checkPreload(type), preloadSegment included.
TimeUpdate(type, time) ==
    LET target == time + preloadDuration[type]
        wanted == enabled[type] /\ ~isSegmentCached(segments[type], target)
        starts == wanted /\ ~isPreloading
        cleaned == IF variant = "current" /\ enabled[type]
                   THEN cleanupCache(segments[type], time)
                   ELSE segments[type]
    IN  /\ currentTime' = [currentTime EXCEPT ![type] = time]
        /\ segments' = [segments EXCEPT ![type] = cleaned]
        /\ IF starts /\ variant = "current" /\ useMultiThread[type]
           THEN \* preloadWithMultiThread: startDownload returns at once and the
                \* finally clause releases isPreloading in the same task
                /\ StartDownload(EstimatedSize(type))
                /\ sessTarget' = IF isLoading THEN sessTarget
                                 ELSE [sessTarget EXCEPT ![nSessions + 1] = target]
                /\ UNCHANGED <<isPreloading, fetches>>
           ELSE IF starts
           THEN /\ Len(fetches) < MaxFetches
                /\ isPreloading' = TRUE
                /\ fetches' = Append(fetches, [type |-> type, target |-> target])
                /\ UNCHANGED <<loaderVars, sessTarget>>
           ELSE /\ \/ currentTime'[type] # currentTime[type]
                   \/ cleaned # segments[type]
                   \/ unserved[type] # {}
                /\ UNCHANGED <<loaderVars, isPreloading, fetches, sessTarget>>
        /\ unserved' = [unserved EXCEPT ![type] = {}]
        /\ UNCHANGED <<variant, enabled, useMultiThread, preloadDuration, clock, stopped>>

\* The response to the k-th pending single-thread request arrives: a 206 with
\* `size` bytes is cached, anything else is not; finally releases the guard.
FetchReturn(k, ok, size) ==
    /\ k \in 1..Len(fetches)
    /\ LET f == fetches[k]
           stored == IF variant = "current"
                     THEN cacheSegment(segments[f.type], f.target, size, clock,
                                       maxCacheSize[f.type], currentTime[f.type])
                     ELSE legacyCacheSegment(segments[f.type], f.target, size, clock,
                                             maxCacheSize[f.type])
       IN  /\ segments' = IF ok THEN [segments EXCEPT ![f.type] = stored] ELSE segments
           /\ fetches' = [j \in 1..(Len(fetches) - 1) |->
                              IF j < k THEN fetches[j] ELSE fetches[j + 1]]
           /\ isPreloading' = FALSE
           /\ unserved' = IF ok THEN unserved
                          ELSE [unserved EXCEPT ![f.type] = @ \cup {f.target}]
    /\ UNCHANGED <<loaderVars, variant, enabled, useMultiThread, preloadDuration,
                   currentTime, sessTarget, clock, stopped>>

\* onComplete of a preloadWithMultiThread session: the merged buffer is
\* cached under the session's target time (an ArrayBuffer is always truthy).
PreloadComplete(s) ==
    /\ MonitorDownloadCompletion(s)
    /\ segments' = [segments EXCEPT !["video"] =
                        cacheSegment(segments["video"], sessTarget[s], Len(ev'.buf), clock,
                                     maxCacheSize["video"], currentTime["video"])]
    /\ UNCHANGED <<variant, enabled, useMultiThread, preloadDuration, isPreloading,
                   currentTime, fetches, sessTarget, clock, stopped, unserved>>

\* MediaPreloader.stop(): the guard is released, the caches are cleared and
\* the loaders are stopped.  removeEventListener is given functions that were
\* never registered, so the timeupdate listeners stay attached.
PreloaderStop ==
    /\ isPreloading' = FALSE
    /\ segments' = [type \in Types |-> <<>>]
    /\ stopped' = TRUE
    /\ IF \E type \in Types : useMultiThread[type]
       THEN StopDownload
       ELSE UNCHANGED loaderVars
    /\ UNCHANGED <<variant, enabled, useMultiThread, preloadDuration, currentTime,
                   fetches, sessTarget, clock, unserved>>

\* Date.now() advances.
ClockTick ==
    /\ clock < MaxClock
    /\ clock' = clock + 1
    /\ UNCHANGED <<loaderVars, variant, enabled, useMultiThread, preloadDuration,
                   isPreloading, currentTime, segments, fetches, sessTarget, stopped,
                   unserved>>

\* The preloader with both streams preloaded by single range requests.
PreloaderNext ==
    \/ \E type \in Types, time \in PlaybackTimes :
           TimeUpdate(type, time) /\ UNCHANGED <<aqVars, syncVars, registryVars, bufferingVars, configVars, planVars>>
    \/ \E k \in 1..MaxFetches, ok \in BOOLEAN, size \in DataSizes :
           FetchReturn(k, ok, size) /\ UNCHANGED <<aqVars, syncVars, registryVars, bufferingVars, configVars, planVars>>
    \/ PreloaderStop /\ UNCHANGED <<aqVars, syncVars, registryVars, bufferingVars, configVars, planVars>>
    \/ ClockTick /\ UNCHANGED <<aqVars, syncVars, registryVars, bufferingVars, configVars, planVars>>

PreloaderSpecInit ==
    LoaderInit /\ workerPool = 0 /\ PreloaderInit /\ AdaptiveQualityInit /\ SyncIdle /\ RegistryInit /\ BufferingIdle /\ ConfigInit /\ PlanIdle

PreloaderSpec == PreloaderSpecInit /\ [][PreloaderNext]_vars

\* The current preloader with the video stream handed to a MultiThreadLoader
\* and audio preloading switched off.
MultiThreadInit ==
    /\ LoaderInit
    /\ workerPool = 0
    /\ variant = "current"
    /\ enabled = [video |-> TRUE, audio |-> FALSE]
    /\ useMultiThread = [video |-> TRUE, audio |-> FALSE]
    /\ preloadDuration = [video |-> 3, audio |-> 10]
    /\ isPreloading = FALSE
    /\ currentTime = [type \in Types |-> 0]
    /\ segments = [type \in Types |-> <<>>]
    /\ fetches = <<>>
    /\ sessTarget = [s \in Sessions |-> 0]
    /\ clock = 0
    /\ stopped = FALSE
    /\ unserved = [type \in Types |-> {}]
    /\ AdaptiveQualityInit
    /\ SyncIdle /\ RegistryInit /\ BufferingIdle /\ ConfigInit /\ PlanIdle

MultiThreadNext ==
    \/ \E time \in PlaybackTimes :
           TimeUpdate("video", time) /\ UNCHANGED <<aqVars, syncVars, registryVars, bufferingVars, configVars, planVars>>
    \/ \E t \in Tasks, ok \in BOOLEAN, via \in {"main", "worker"} :
           HandleWorkerMessage(t, ok, via) /\ UNCHANGED <<preloaderVars, aqVars, syncVars, registryVars, bufferingVars, configVars, planVars>>
    \/ \E t \in Tasks : RetryDownload(t) /\ UNCHANGED <<preloaderVars, aqVars, syncVars, registryVars, bufferingVars, configVars, planVars>>
    \/ \E s \in Sessions : PreloadComplete(s) /\ UNCHANGED <<aqVars, syncVars, registryVars, bufferingVars, configVars, planVars>>
    \/ PreloaderStop /\ UNCHANGED <<aqVars, syncVars, registryVars, bufferingVars, configVars, planVars>>

MultiThreadSpec == MultiThreadInit /\ [][MultiThreadNext]_vars

\* One AdaptiveQuality engine, enabled as constructed and started at most
\* once, over MaxTime seconds.
notAdaptiveQuality == <<loaderVars, preloaderVars, syncVars, registryVars, bufferingVars, configVars, planVars>>

AdaptiveQualityNext ==
    \/ \E quality \in StartQualities : Start(quality) /\ UNCHANGED notAdaptiveQuality
    \/ Stop /\ UNCHANGED notAdaptiveQuality
    \/ \E sample \in NetworkInputs :
           UpdateNetworkStatus(sample[1], sample[2]) /\ UNCHANGED notAdaptiveQuality
    \/ RecordStall /\ UNCHANGED notAdaptiveQuality
    \/ IntervalFires /\ UNCHANGED notAdaptiveQuality
    \/ TriggerEvaluation /\ UNCHANGED notAdaptiveQuality
    \/ \E direction \in Directions :
           QualityChangeRequest(direction) /\ UNCHANGED notAdaptiveQuality
    \/ \E quality \in awaiting, ok \in BOOLEAN :
           CallbackReturns(quality, ok) /\ UNCHANGED notAdaptiveQuality
    \/ \E due \in coolDownTimers : CoolDownExpires(due) /\ UNCHANGED notAdaptiveQuality
    \/ Tick /\ UNCHANGED notAdaptiveQuality

AdaptiveQualitySpecInit ==
    LoaderInit /\ workerPool = 0 /\ PreloaderIdle /\ AdaptiveQualityInit /\ SyncIdle /\ RegistryInit /\ BufferingIdle /\ ConfigInit /\ PlanIdle

AdaptiveQualitySpec == AdaptiveQualitySpecInit /\ [][AdaptiveQualityNext]_vars

\* One evaluation of a started engine, enabled or disabled with setConfig,
\* from every combination of tier, speed, buffer health and stall count.
MaxSpeed == 250
QualityInputs == {qualityLevels[i].qn : i \in 1..Len(qualityLevels)} \cup {125}
BufferHealthInputs == {bufferThreshold, bufferThreshold + 1}

DecisionInit ==
    /\ LoaderInit /\ workerPool = 0 /\ PreloaderIdle /\ SyncIdle /\ RegistryInit /\ BufferingIdle /\ ConfigInit /\ PlanIdle
    /\ configEnabled = TRUE
    /\ currentQuality \in QualityInputs
    /\ stallCount \in 0..MaxStalls
    /\ avgNetworkSpeed \in 0..MaxSpeed
    /\ bufferHealth \in BufferHealthInputs
    /\ isAdjusting = FALSE
    /\ adjustHistory = <<>>
    /\ started = TRUE
    /\ intervalId = TRUE
    /\ intervalDue = adjustInterval
    /\ awaiting = {}
    /\ coolDownTimers = {}
    /\ now = 0
    /\ lastTrigger = "none"
    /\ stalledSinceEvaluation = FALSE

DecisionNext ==
    \/ TriggerEvaluation /\ UNCHANGED notAdaptiveQuality
    \/ \E b \in BOOLEAN : SetEnabled(b) /\ UNCHANGED notAdaptiveQuality
    \/ \E quality \in awaiting, ok \in BOOLEAN :
           CallbackReturns(quality, ok) /\ UNCHANGED notAdaptiveQuality

DecisionSpec == DecisionInit /\ [][DecisionNext]_vars

\* A started engine that evaluates again and again while the observed speed
\* and the buffer health stay what they were and nothing stalls.  Time stamps
\* all read 0; a cool-down timer fires some time after it was set.
TierInputs == {qualityLevels[i].qn : i \in 1..Len(qualityLevels)}
SteadySpeeds == {5, 55, 60, MaxSpeed}       \* 0.5, 5.5, 6 and 25 Mbps

StabilityInit ==
    /\ LoaderInit /\ workerPool = 0 /\ PreloaderIdle /\ SyncIdle /\ RegistryInit /\ BufferingIdle /\ ConfigInit /\ PlanIdle
    /\ configEnabled = TRUE
    /\ currentQuality \in TierInputs
    /\ stallCount = 0
    /\ avgNetworkSpeed \in SteadySpeeds
    /\ bufferHealth \in BufferHealthInputs
    /\ isAdjusting = FALSE
    /\ adjustHistory = <<>>
    /\ started = TRUE
    /\ intervalId = TRUE
    /\ intervalDue = adjustInterval
    /\ awaiting = {}
    /\ coolDownTimers = {}
    /\ now = 0
    /\ lastTrigger = "none"
    /\ stalledSinceEvaluation = FALSE

StabilityNext ==
    \/ TriggerEvaluation /\ UNCHANGED notAdaptiveQuality
    \/ \E quality \in awaiting, ok \in BOOLEAN :
           CallbackReturns(quality, ok) /\ UNCHANGED notAdaptiveQuality
    \/ \E due \in coolDownTimers : CoolDownFires(due) /\ UNCHANGED notAdaptiveQuality

\* The interval keeps firing, the awaited callback settles and a timer that
\* was set fires.
StabilityFairness ==
    /\ WF_vars(TriggerEvaluation /\ UNCHANGED notAdaptiveQuality)
    /\ WF_vars(\E quality \in awaiting, ok \in BOOLEAN :
                   CallbackReturns(quality, ok) /\ UNCHANGED notAdaptiveQuality)
    /\ WF_vars(\E due \in coolDownTimers : CoolDownFires(due) /\ UNCHANGED notAdaptiveQuality)

StabilitySpec == StabilityInit /\ [][StabilityNext]_vars /\ StabilityFairness

\* The same engine late in a session: start() has been called again with some
\* tier, and adjustHistory is empty or holds the ten changes of an engine
\* that went between 720P60 and 1080P, one a second.
RecordedHistory ==
    [k \in 1..maxHistory |->
        [timestamp |-> k,
         from |-> IF k % 2 = 1 THEN 74 ELSE 80,
         to |-> IF k % 2 = 1 THEN 80 ELSE 74,
         reason |-> IF k % 2 = 1 THEN Reason("buffer", bufferThreshold + 1)
                    ELSE Reason("speed", 55)]]

HistoryInit ==
    /\ LoaderInit /\ workerPool = 0 /\ PreloaderIdle /\ SyncIdle /\ RegistryInit /\ BufferingIdle /\ ConfigInit /\ PlanIdle
    /\ configEnabled = TRUE
    /\ currentQuality \in TierInputs
    /\ stallCount = 0
    /\ avgNetworkSpeed \in SteadySpeeds
    /\ bufferHealth \in BufferHealthInputs
    /\ isAdjusting = FALSE
    /\ adjustHistory \in {<<>>, RecordedHistory}
    /\ started = TRUE
    /\ intervalId = TRUE
    /\ intervalDue = maxHistory + 1 + adjustInterval
    /\ awaiting = {}
    /\ coolDownTimers = {}
    /\ now = maxHistory + 1
    /\ lastTrigger = "none"
    /\ stalledSinceEvaluation = FALSE

HistorySpec == HistoryInit /\ [][StabilityNext]_vars

\* An engine started with any quality number the player may hold, the
\* ladder's and others, up to the end of its first change: it is evaluated
\* and sent external requests.
StartInputs == TierInputs \cup {0, 6, 100, 125, 126, 127}

RequestInit ==
    /\ LoaderInit /\ workerPool = 0 /\ PreloaderIdle /\ SyncIdle /\ RegistryInit /\ BufferingIdle /\ ConfigInit /\ PlanIdle
    /\ configEnabled = TRUE
    /\ currentQuality \in StartInputs
    /\ stallCount = 0
    /\ avgNetworkSpeed \in SteadySpeeds \cup {0}
    /\ bufferHealth \in BufferHealthInputs
    /\ isAdjusting = FALSE
    /\ adjustHistory = <<>>
    /\ started = TRUE
    /\ intervalId = TRUE
    /\ intervalDue = adjustInterval
    /\ awaiting = {}
    /\ coolDownTimers = {}
    /\ now = 0
    /\ lastTrigger = "none"
    /\ stalledSinceEvaluation = FALSE

RequestNext ==
    \/ TriggerEvaluation /\ UNCHANGED notAdaptiveQuality
    \/ \E direction \in Directions :
           QualityChangeRequest(direction) /\ UNCHANGED notAdaptiveQuality
    \/ \E quality \in awaiting, ok \in BOOLEAN :
           CallbackReturns(quality, ok) /\ UNCHANGED notAdaptiveQuality

RequestSpec == RequestInit /\ [][RequestNext]_vars

\* The synchronisation handlers of one DASH pair under user input and playback.
notSync == <<loaderVars, preloaderVars, aqVars, registryVars, bufferingVars, configVars, planVars>>

SyncNext ==
    \/ DispatchVideoEvent /\ UNCHANGED notSync
    \/ UserPlay /\ UNCHANGED notSync
    \/ UserPause /\ UNCHANGED notSync
    \/ \E t \in SeekInputs : UserSeek(t) /\ UNCHANGED notSync
    \/ \E r \in RateInputs : UserRate(r) /\ UNCHANGED notSync
    \/ UserMute /\ UNCHANGED notSync
    \/ VideoSeeked /\ UNCHANGED notSync
    \/ AudioSeeked /\ UNCHANGED notSync
    \/ VideoAdvances /\ UNCHANGED notSync
    \/ AudioAdvances /\ UNCHANGED notSync

SyncSpecInit ==
    LoaderInit /\ workerPool = 0 /\ PreloaderIdle /\ AdaptiveQualityInit /\ SyncInit /\ RegistryInit /\ BufferingIdle /\ ConfigInit /\ PlanIdle

SyncSpec == SyncSpecInit /\ [][SyncNext]_vars

\* The player is replaced, its CDN is switched and events reach the elements
\* of every pair made so far.
notRegistry == <<loaderVars, preloaderVars, aqVars, syncVars, bufferingVars, configVars, planVars>>

RegistryNext ==
    \/ \E dash \in BOOLEAN : ReplacePlayer(dash) /\ UNCHANGED notRegistry
    \/ ReloadPlayerWithNewCDN /\ UNCHANGED notRegistry
    \/ \E player \in 1..created, type \in ElementTypes, event \in EventNames :
           DispatchEvent(player, type, event) /\ UNCHANGED notRegistry

RegistrySpecInit ==
    /\ LoaderInit /\ workerPool = 0 /\ PreloaderIdle /\ AdaptiveQualityInit
    /\ SyncIdle /\ RegistryInit /\ BufferingIdle /\ ConfigInit /\ PlanIdle

RegistrySpec == RegistrySpecInit /\ [][RegistryNext]_vars

\* One DASH pair with its buffering handlers, the user and the browser.
notBuffering == <<loaderVars, preloaderVars, aqVars, syncVars, registryVars, configVars, planVars>>

BufferingNext ==
    \/ CheckBuffering /\ UNCHANGED notBuffering
    \/ DispatchMediaEvent /\ UNCHANGED notBuffering
    \/ UserPlays /\ UNCHANGED notBuffering
    \/ UserPauses /\ UNCHANGED notBuffering
    \/ \E type \in ElementTypes, readyState \in ReadyStateInputs :
           ReadinessChanges(type, readyState) /\ UNCHANGED notBuffering
    \/ \E type \in ElementTypes : SeekingChanges(type) /\ UNCHANGED notBuffering
    \/ \E seconds \in BufferInputs : BufferChanges(seconds) /\ UNCHANGED notBuffering
    \/ UpdateBufferHealth /\ UNCHANGED notBuffering
    \/ BufferMonitorTick /\ UNCHANGED notBuffering
    \/ CheckBufferFires /\ UNCHANGED notBuffering

BufferingSpecInit ==
    /\ LoaderInit /\ workerPool = 0 /\ PreloaderIdle /\ AdaptiveQualityInit
    /\ SyncIdle /\ RegistryInit /\ BufferingInit /\ ConfigInit /\ PlanIdle

BufferingSpec == BufferingSpecInit /\ [][BufferingNext]_vars

\* The same with the timers of the optimizer firing: the 1 s monitoring
\* interval, the checkBuffer timer whenever it is pending, and the queued
\* media events being delivered.
BufferingFairness ==
    /\ WF_vars(BufferMonitorTick /\ UNCHANGED notBuffering)
    /\ SF_vars(CheckBufferFires /\ UNCHANGED notBuffering)
    /\ WF_vars(DispatchMediaEvent /\ UNCHANGED notBuffering)

RecoverySpec == BufferingSpecInit /\ [][BufferingNext]_vars /\ BufferingFairness

(***************************************************************************)
(* Properties of the MediaPreloader                                        *)
(***************************************************************************)

\* C1: after any sequence of cacheSegment calls the sizes of the segments held
\* for a stream add up to at most that stream's maxCacheSize.
C1_CacheBudget ==
    \A type \in Types : CacheTotal(segments[type]) <= maxCacheSize[type]

\* The same budget for the legacy preloader alone.
LegacyCacheBudget == variant = "legacy" => C1_CacheBudget

(***************************************************************************)
(* Properties of the MultiThreadLoader                                     *)
(***************************************************************************)

\* Range requests issued and not yet returned.
InFlight(t) == netMain[t] + netWorker[t]

InFlightCount == SumOver(netMain, Tasks) + SumOver(netWorker, Tasks)

InQueue(t) == \E k \in 1..Len(downloadQueue) : downloadQueue[k] = t

\* Nothing is pending for download object t: not queued, no request in
\* flight, no retry timer.
Quiescent(t) == ~InQueue(t) /\ InFlight(t) = 0 /\ retryTimers[t] = 0

TasksOf(s) == {t \in Tasks : t[1] = s /\ t[2] < SegmentCount(sessTotal[s])}

stopCalled == cancelled # {}

\* C2: at every instant the number of range requests issued and not yet
\* returned is at most the configured maxConcurrentDownloads.
C2_ConcurrencyLimit == InFlightCount <= maxConcurrentDownloads

\* C3: neither onComplete nor onProgress of a session is invoked after
\* stopDownload was called on it before it completed.
C3_NoCallbackAfterStop ==
    ev.kind \in {"complete", "progress"} => ev.sess \notin cancelled

\* C4: after stopDownload no new range request is started for any download
\* object of the stopped session.
C4_NoRequestAfterStop ==
    [][\A t \in Tasks : t[1] \in cancelled => requests'[t] = requests[t]]_vars

\* C5: the result of a range request of a stopped session is never stored in
\* downloadedSegments (nor counted, nor reported) when it returns.
C5_StaleResultDiscarded ==
    ev.stored # NoTask => ev.stored[1] \notin cancelled

\* C6: when no stopDownload was called, a download object whose every attempt
\* failed and for which nothing is pending any more was requested exactly
\* retryAttempts + 1 times and its error callback ran exactly once.
C6_RetryCeiling ==
    \A t \in Tasks :
        (~stopCalled /\ t \in failed /\ t \notin succeeded /\ Quiescent(t))
            => (requests[t] = retryAttempts + 1 /\ errors[t] = 1)

\* Position of a stored segment in the merged buffer: the sizes of the stored
\* segments that start before it.
OffsetIn(m, k) ==
    LET before == {j \in 1..Len(m) : m[j].start < m[k].start}
        size == [j \in 1..Len(m) |-> m[j].end - m[j].start + 1]
    IN  SumOver(size, before)

AscendingConcatenation(buf, m) ==
    /\ Len(buf) = SumOver([j \in 1..Len(m) |-> m[j].end - m[j].start + 1], 1..Len(m))
    /\ \A k \in 1..Len(m) :
           \A o \in m[k].start..m[k].end :
               buf[OffsetIn(m, k) + (o - m[k].start) + 1] = o

\* Every request of session s was answered with 206 and none failed.
FullySuccessful(s) ==
    /\ s \notin cancelled
    /\ \A t \in TasksOf(s) : t \in succeeded /\ t \notin failed /\ InFlight(t) = 0

WholeExtent(s) == [k \in 1..sessTotal[s] |-> k - 1]

\* C7: the buffer passed to onComplete is the concatenation of the stored
\* segments in ascending start offset, and for a session in which every
\* segment succeeded it is the whole requested extent.
C7_MergedBufferIsExtent ==
    ev.kind = "complete" =>
        /\ AscendingConcatenation(ev.buf, downloadedSegments)
        /\ FullySuccessful(ev.sess) => ev.buf = WholeExtent(ev.sess)

\* The first half of C7 alone.
AscendingOnly ==
    ev.kind = "complete" => AscendingConcatenation(ev.buf, downloadedSegments)

\* C8: while a range request of the stream's loader is in flight (and nothing
\* was ever stopped), a checkPreload starts no further download session.
C8_SingleFlight ==
    [][(InFlightCount > 0 /\ ~stopCalled) => nSessions' = nSessions]_vars

(***************************************************************************)
(* Properties of AdaptiveQuality                                           *)
(***************************************************************************)

\* C9: after an accepted quality change the engine accepts no further change
\* until the cool-down has elapsed: two changes recorded in adjustHistory are
\* at least coolDown seconds apart, whichever triggers asked for them.
C9_CoolDown ==
    \A i \in 1..(Len(adjustHistory) - 1) :
        adjustHistory[i + 1].timestamp >= adjustHistory[i].timestamp + coolDown

\* A second trigger that would change the quality arrived less than coolDown
\* after the accepted one and was refused: one change stands.
C9_Witness ==
    /\ lastTrigger = "blocked"
    /\ Len(adjustHistory) = 1
    /\ now < adjustHistory[1].timestamp + coolDown

\* After the cool-down a change is accepted again.
SecondChangeAccepted ==
    /\ lastTrigger = "accepted"
    /\ Len(adjustHistory) = 2

(***************************************************************************)
(* Properties of the synchronisation handlers                              *)
(***************************************************************************)

\* The state in which syncAudio is about to run with the streams more than
\* 0.2 s apart, the video playing and neither stream seeking.
SyncTickCase ==
    /\ Len(videoEvents) > 0
    /\ Head(videoEvents) = "timeupdate"
    /\ Abs(video.currentTime - audio.currentTime) > driftThreshold
    /\ ~video.paused /\ ~video.seeking /\ ~audio.seeking

\* C10: a syncAudio tick in that state sets audio.currentTime to
\* video.currentTime and leaves the audio playing.
C10_SyncTick ==
    [][(SyncTickCase /\ videoEvents' = Tail(videoEvents))
          => (audio'.currentTime = video.currentTime /\ ~audio'.paused)]_vars

\* The same for the refactored player alone.
RefactoredSyncTick ==
    [][(playerVariant = "refactored" /\ SyncTickCase /\ videoEvents' = Tail(videoEvents))
          => (audio'.currentTime = video.currentTime /\ ~audio'.paused)]_vars

\* The refactored tick was run on a paused audio element.
RefactoredTickReached ==
    playerVariant = "refactored" /\ SyncTickCase /\ audio.paused

\* The transition is a run of the timeupdate listener syncAudio.
SyncAudioRuns ==
    /\ Len(videoEvents) > 0
    /\ Head(videoEvents) = "timeupdate"
    /\ videoEvents' = Tail(videoEvents)

\* C11: a syncAudio tick never writes audio.currentTime while video.seeking
\* or audio.seeking is true, nor while the video is paused.
C11_NoCorrectionWhileSeekingOrPaused ==
    [][(SyncAudioRuns /\ (video.seeking \/ audio.seeking \/ video.paused))
          => (audio'.currentTime = audio.currentTime /\ audio'.seeking = audio.seeking)]_vars

\* The same for the refactored player alone.
RefactoredNoCorrectionWhileSeekingOrPaused ==
    [][(playerVariant = "refactored" /\ SyncAudioRuns
            /\ (video.seeking \/ audio.seeking \/ video.paused))
          => (audio'.currentTime = audio.currentTime /\ audio'.seeking = audio.seeking)]_vars

Mirrored(v, a) ==
    /\ a.playbackRate = v.playbackRate
    /\ a.volume = v.volume
    /\ a.muted = v.muted

\* C19: after every syncAudio tick the playbackRate, volume and muted of the
\* audio element equal those of the video element, with or without a drift
\* correction in the tick, also while the video is paused or seeking.
C19_MirrorAfterTick == [][SyncAudioRuns => Mirrored(video', audio')]_vars

\* The same for the refactored player alone.
RefactoredMirrorAfterTick ==
    [][(playerVariant = "refactored" /\ SyncAudioRuns) => Mirrored(video', audio')]_vars

\* A tick of the refactored player that mirrors a rate without correcting.
RefactoredMirrorReached ==
    /\ playerVariant = "refactored"
    /\ video.playbackRate = 2 /\ audio.playbackRate = 2
    /\ Len(videoEvents) > 0 /\ Head(videoEvents) = "ratechange"

\* A run of checkAndAdjustQuality, from the interval or from triggerEvaluation.
EvaluationCycle == IntervalFires \/ TriggerEvaluation

\* The cycle gets as far as makeQualityDecision.
Evaluates == configEnabled /\ ~isAdjusting

StallCase == stallCount >= stallThreshold /\ getLowerQuality(currentQuality) # NoQuality

\* Exactly one change, to `target` for `reason`, is recorded and signalled.
SignalsOne(target, reason) ==
    /\ adjustHistory' = pushHistory(adjustHistory,
                            [timestamp |-> now, from |-> currentQuality,
                             to |-> target, reason |-> reason])
    /\ IF started THEN awaiting' = {target} ELSE currentQuality' = target

SignalsNone == adjustHistory' = adjustHistory /\ awaiting' = awaiting

\* The callback of a change made for `kind` returns normally.
ChangeSucceeds(kind) ==
    /\ Len(adjustHistory) > 0
    /\ adjustHistory[Len(adjustHistory)].reason.kind = kind
    /\ \E q \in awaiting : CallbackReturns(q, TRUE)

\* C12: an evaluation with stallCount >= stallThreshold and a lower tier
\* available signals exactly one change, to the tier immediately below the
\* current one, with a reason quoting the stall count; stallCount is 0 once
\* that change has succeeded.
C12_StallDowngrade ==
    [][/\ (EvaluationCycle /\ Evaluates /\ StallCase)
            => SignalsOne(qualityLevels[findIndex(currentQuality) - 1].qn,
                          Reason("stall", stallCount))
       /\ ChangeSucceeds("stall")
            => (stallCount' = 0 /\ currentQuality' = adjustHistory[Len(adjustHistory)].to)
      ]_vars

\* A downgrade from 1080P to the tier below it, made after three stalls, has
\* succeeded and the counter is back at 0.
C12_Witness ==
    /\ Len(adjustHistory) > 0
    /\ adjustHistory[Len(adjustHistory)] =
           [timestamp |-> adjustHistory[Len(adjustHistory)].timestamp, from |-> 80,
            to |-> 74, reason |-> Reason("stall", stallThreshold)]
    /\ currentQuality = 74
    /\ stallCount = 0
    /\ awaiting = {}

\* The throughput trigger: the tier recommended for the speed is not the
\* current one.
ThroughputCase ==
    /\ getRecommendedQualityBySpeed(avgNetworkSpeed) # NoQuality
    /\ getRecommendedQualityBySpeed(avgNetworkSpeed).qn # currentQuality

\* The buffer trigger: ample buffer, no stall, and the speed covers the next
\* tier up.
BufferCase ==
    /\ bufferHealth > bufferThreshold
    /\ stallCount = 0
    /\ getHigherQuality(currentQuality) # NoQuality
    /\ avgNetworkSpeed >= getHigherQuality(currentQuality).bitrate

SignalsAtMostOne ==
    \/ SignalsNone
    \/ /\ Len(adjustHistory') = Len(adjustHistory) + 1
       /\ Cardinality(awaiting' \ awaiting) <= 1

\* C13: an evaluation cycle signals at most one tier change; when the stall
\* trigger and the throughput trigger both hold the stall downgrade is the
\* one signalled, and when the throughput trigger and the buffer trigger both
\* hold (and the stall one does not) the throughput match is.
C13_OneDecisionByPriority ==
    [][EvaluationCycle =>
          /\ SignalsAtMostOne
          /\ (Evaluates /\ StallCase /\ (ThroughputCase \/ BufferCase))
                => SignalsOne(getLowerQuality(currentQuality).qn,
                              Reason("stall", stallCount))
          /\ (Evaluates /\ ~StallCase /\ ThroughputCase /\ BufferCase)
                => SignalsOne(getRecommendedQualityBySpeed(avgNetworkSpeed).qn,
                              Reason("speed", avgNetworkSpeed))
      ]_vars

\* With three stalls at 1080P and a speed that recommends 360P, the change
\* just signalled is the stall downgrade to the tier below.
C13_Witness ==
    /\ lastTrigger = "accepted"
    /\ Len(adjustHistory) = 1
    /\ adjustHistory[1].reason = Reason("stall", stallThreshold)
    /\ adjustHistory[1].to = 74
    /\ awaiting = {74}
    /\ stallCount = stallThreshold
    /\ currentQuality = 80
    /\ avgNetworkSpeed = 10

\* The throughput match was signalled while the buffer trigger held as well.
ThroughputOverBufferReached ==
    /\ lastTrigger = "accepted"
    /\ Len(adjustHistory) > 0
    /\ adjustHistory[Len(adjustHistory)].reason.kind = "speed"
    /\ awaiting # {}
    /\ ThroughputCase /\ BufferCase /\ ~StallCase

\* Tier t is the highest tier whose bitrate is at most speed / 1.2, or the
\* lowest tier when no tier's bitrate is.
IsThroughputTarget(t, speed) ==
    LET affordable == {i \in 1..Len(qualityLevels) : qualityLevels[i].bitrate * 12 <= speed * 10}
    IN  IF affordable = {} THEN t = 1
        ELSE t \in affordable /\ \A i \in affordable : i <= t

\* C14: in an evaluation where no stall downgrade fires and the speed is
\* positive, the throughput target is the highest tier whose bitrate is at
\* most speed / 1.2 (the lowest tier when there is none), and a change to it
\* is signalled exactly when it is not the current tier.
C14_ThroughputMatch ==
    [][(EvaluationCycle /\ Evaluates /\ ~StallCase /\ avgNetworkSpeed > 0) =>
          \A t \in 1..Len(qualityLevels) :
              IsThroughputTarget(t, avgNetworkSpeed) =>
                  IF qualityLevels[t].qn # currentQuality
                  THEN SignalsOne(qualityLevels[t].qn, Reason("speed", avgNetworkSpeed))
                  ELSE \/ SignalsNone
                       \/ adjustHistory'[Len(adjustHistory')].to # qualityLevels[t].qn
      ]_vars

\* At 6.0 Mbps, exactly 1.2 times the bitrate of 1080P, an engine at 360P was
\* moved to 1080P.
C14_Witness ==
    /\ avgNetworkSpeed = 60
    /\ Len(adjustHistory) = 1
    /\ adjustHistory[1] = [timestamp |-> 0, from |-> 16, to |-> 80,
                           reason |-> Reason("speed", 60)]
    /\ currentQuality = 80

\* The buffer upgrade: one change to the next tier up.
SignalsUpgrade ==
    /\ getHigherQuality(currentQuality) # NoQuality
    /\ SignalsOne(getHigherQuality(currentQuality).qn, Reason("buffer", bufferHealth))

\* C15: in an evaluation where neither the stall downgrade nor the
\* throughput change fires, the upgrade to the next tier up is signalled
\* exactly when bufferHealth > bufferThreshold, no stall was recorded since
\* the last evaluation, and the speed covers the next tier's bitrate.
C15_BufferUpgrade ==
    [][(EvaluationCycle /\ Evaluates /\ ~StallCase /\ ~ThroughputCase) =>
          (SignalsUpgrade <=>
              /\ bufferHealth > bufferThreshold
              /\ ~stalledSinceEvaluation
              /\ getHigherQuality(currentQuality) # NoQuality
              /\ avgNetworkSpeed >= getHigherQuality(currentQuality).bitrate)
      ]_vars

\* The same with the test the code makes: stallCount is 0.
UpgradeWhenStallCountZero ==
    [][(EvaluationCycle /\ Evaluates /\ ~StallCase /\ ~ThroughputCase) =>
          (SignalsUpgrade <=>
              /\ bufferHealth > bufferThreshold
              /\ stallCount = 0
              /\ getHigherQuality(currentQuality) # NoQuality
              /\ avgNetworkSpeed >= getHigherQuality(currentQuality).bitrate)
      ]_vars

(***************************************************************************)
(* Properties of the tracked event listeners                               *)
(***************************************************************************)

CleanupRuns == (\E dash \in BOOLEAN : ReplacePlayer(dash)) \/ ReloadPlayerWithNewCDN

\* C16: once cleanupPlayerEventListeners has run in a replacement, no listener
\* registered through addTrackedEventListener is left on the video and audio
\* elements that were in the player, also where two handlers were registered
\* for one event name of one element.
C16_OldListenersDetached ==
    [][CleanupRuns => \A l \in listeners' : l.player # litePlayer]_vars

\* The second half of C16: no listener of a replaced pair runs any more.
NoOldHandlerRuns == \A l \in handled : l.player = litePlayer

\* What the clean-up does achieve: the only listeners it leaves behind are
\* those whose entry in the Map was overwritten by a later registration for the
\* same event name, here seekingHandler of the video element.
OnlyOverwrittenListenersStay ==
    [][CleanupRuns =>
          \A l \in listeners' :
              l.player = litePlayer =>
                  /\ l.type = "video" /\ l.event = "seeking"
                  /\ l.handler = "seekingHandler"]_vars

ListenersWereDetached ==
    /\ litePlayer = 2
    /\ \E l \in listeners : l.player = 2 /\ l.handler = "syncAudio"
    /\ ~\E l \in listeners : l.player = 1 /\ l.handler = "syncAudio"

(***************************************************************************)
(* Properties of the buffering handlers                                    *)
(***************************************************************************)

BufferingOutcome ==
    IF ran.notReady
    THEN videoElement.paused /\ audioElement.paused /\ loading = "flex"
    ELSE loading = "none"

\* C17: when checkBuffering has run with the readyState of either stream below
\* 3 or either stream seeking, video and audio are paused and the loading
\* overlay is shown; when it has run with both ready and neither seeking, the
\* overlay is hidden.
C17_CheckBuffering == ran.handler = "checkBuffering" => BufferingOutcome

\* checkBuffering of the legacy player alone does what C17 says.
LegacyCheckBuffering ==
    (bufferingVariant = "legacy" /\ ran.handler = "checkBuffering") => BufferingOutcome

LegacyCheckBufferingPaused ==
    /\ bufferingVariant = "legacy"
    /\ ran = Ran("checkBuffering", TRUE)
    /\ pausedForBuffering

\* C18: once the code has paused the video for lack of buffered data, the
\* video stays paused until the user plays it: nothing calls play() on it when
\* readiness or the buffer recovers.
C18_NoAutoResume == pausedForBuffering => videoElement.paused

\* The refactored player, which neither pauses in checkBuffering nor starts a
\* PlaybackOptimizer, never resumes by itself.
RefactoredNoAutoResume ==
    bufferingVariant = "refactored" => (pausedForBuffering => videoElement.paused)

\* Where the legacy player resumes by itself.
ResumedByCheckBuffer ==
    pausedForBuffering /\ ~videoElement.paused /\ ran.handler = "checkBuffer"

ResumedByCheckBuffering ==
    pausedForBuffering /\ ~videoElement.paused /\ ran.handler = "checkBuffering"

(***************************************************************************)
(* Properties of startDownload                                             *)
(***************************************************************************)

\* The session started last has neither been stopped nor reported complete.
SessionActive ==
    /\ nSessions > 0
    /\ nSessions \notin cancelled
    /\ nSessions \in monitors

\* A call of startDownload gets past its guard.
StartDownloadProceeds == ~isLoading

\* C20: startDownload called while a session is active is a no-op: it returns
\* at its guard, so the queue, the in-flight set, the stored segments, the byte
\* counters and the callbacks of the running session stay as they are and no
\* request is issued.
C20_SecondStartIsNoOp == SessionActive => ~StartDownloadProceeds

StartDownloadCalled == \E totalSize \in TotalSizes : StartDownload(totalSize)

\* A call that stops at the guard changes nothing of the loader.
IgnoredStartChangesNothing ==
    [][(StartDownloadCalled /\ ~StartDownloadProceeds) =>
          UNCHANGED <<maxConcurrentDownloads, isLoading, downloadQueue, activeDownloads,
                      downloadedSegments, downloadedBytes, totalBytes, retries,
                      workerPool, availableWorkers, netMain, netWorker, retryTimers,
                      monitors, requests>>]_vars

\* A call that gets past the guard empties the stored segments, zeroes the byte
\* counter, registers its completion callback and queues or requests segments.
ProceedingStartResets ==
    [][(StartDownloadCalled /\ StartDownloadProceeds) =>
          /\ downloadedSegments' = <<>>
          /\ downloadedBytes' = 0
          /\ monitors' # monitors
          /\ (downloadQueue' # downloadQueue \/ requests' # requests)]_vars

IgnoredStartReached == ev.kind = "startIgnored" /\ SessionActive

(***************************************************************************)
(* Properties of one session                                               *)
(***************************************************************************)

ErrorSeen == \E t \in Tasks : errors[t] > 0

Completed == nSessions > 0 /\ monitors = {}

Stored(t) == \E k \in 1..Len(downloadedSegments) : downloadedSegments[k].src = t

\* The step reports download object d through its error callback.
ErrorReported(d) == errors'[d] = errors[d] + 1

\* Download object u is as far as it was, or further.
SiblingKept(u) ==
    /\ InQueue(u) => (InQueue(u)' \/ requests'[u] = requests[u] + 1)
    /\ InFlight(u) > 0 =>
           (InFlight(u)' = InFlight(u) /\ activeDownloads'[u[2]] = activeDownloads[u[2]])

startByte(time) == time

\* The step starts a session.
SessionStarts == nSessions' = nSessions + 1

\* The download objects the step has queued or requested for the new session.
Enqueued == {t \in Tasks : t[1] = nSessions' /\ (InQueue(t)' \/ requests'[t] > 0)}

\* The ranges of the new download objects, taken by id, split the `size`
\* bytes from `first` on into pieces of at most SegmentSize bytes.
PartitionFrom(first, size) ==
    /\ Cardinality(Enqueued) * SegmentSize >= size
    /\ (Cardinality(Enqueued) - 1) * SegmentSize < size
    /\ \A t \in Enqueued :
           LET r == RangeOf(t)'
           IN  /\ r.start <= r.end
               /\ r.end - r.start + 1 <= SegmentSize
               /\ t[2] = 0 => r.start = first
               /\ t[2] > 0 =>
                      /\ <<t[1], t[2] - 1>> \in Enqueued
                      /\ r.start = RangeOf(<<t[1], t[2] - 1>>)'.end + 1
               /\ t[2] = Cardinality(Enqueued) - 1 => r.end = first + size - 1

\* C22: startDownload enqueues ceil(totalSize / segmentSize) download objects
\* whose ranges, in order, are contiguous, do not overlap, are at most
\* segmentSize long and cover the requested extent, which for a preload begins
\* at the byte of the target time.
C22_SegmentsCoverExtent ==
    [][SessionStarts =>
          PartitionFrom(startByte(sessTarget'[nSessions']), sessTotal'[nSessions'])]_vars

\* The plan does split the bytes from 0 on, whatever the target time is.
SegmentsCoverFromZero ==
    [][SessionStarts => PartitionFrom(0, sessTotal'[nSessions'])]_vars

PlanFromZeroReached ==
    /\ nSessions = 1 /\ sessTarget[1] = 313
    /\ RangeOf(<<1, 0>>).start = 0
    /\ requests[<<1, 1>>] = 1

(***************************************************************************)
(* Progress and the completed buffer                                       *)
(***************************************************************************)

\* No request of the run has ended in a failure.
NoFailures == nFailures = 0

\* onProgress was called by the last step; its first argument is
\* downloadedBytes / totalBytes * 100.
ProgressCalled == ev.kind = "progress"

C24_TierSettles == <>[][currentQuality' = currentQuality]_vars

\* The engine stands on 720P60 and on 1080P in turn at 5.5 Mbps.
TierAlternates ==
    /\ avgNetworkSpeed = 55 /\ bufferHealth > bufferThreshold
    /\ currentQuality = 74
    /\ Len(adjustHistory) >= 3
    /\ adjustHistory[Len(adjustHistory)].from = 80
    /\ adjustHistory[Len(adjustHistory) - 1].from = 74
    /\ adjustHistory[Len(adjustHistory) - 2].from = 80

(***************************************************************************)
(* The in-flight guard of the preloader                                    *)
(***************************************************************************)

\* A single-thread request of the stream awaits its response.
FetchInFlight(type) == \E k \in 1..Len(fetches) : fetches[k].type = type

\* checkPreload(type) at position `time` finds preloading enabled and the
\* target segment not cached.
NeedsPreload(type, time) ==
    /\ enabled[type]
    /\ ~isSegmentCached(segments[type], time + preloadDuration[type])

\* The step has issued a request for the target of (type, time).
FetchIssued(type, time) ==
    /\ Len(fetches') = Len(fetches) + 1
    /\ fetches'[Len(fetches')] = [type |-> type, target |-> time + preloadDuration[type]]

\* C25: checkPreload for an enabled stream whose target is not cached issues
\* a fetch whenever no fetch of that same stream is in flight, whatever the
\* other stream is doing.
C25_GuardPerStream ==
    [][\A type \in Types, time \in PlaybackTimes :
           (/\ TimeUpdate(type, time)
            /\ NeedsPreload(type, time)
            /\ ~FetchInFlight(type)
            /\ Len(fetches) < MaxFetches)
               => FetchIssued(type, time)]_vars

\* What the code does: the request is issued exactly when state.isPreloading
\* is false, whichever stream set it.
GuardIsShared ==
    [][\A type \in Types, time \in PlaybackTimes :
           (TimeUpdate(type, time) /\ NeedsPreload(type, time))
               => (FetchIssued(type, time) <=> ~isPreloading)]_vars

AudioHeldBackByVideo ==
    /\ isPreloading
    /\ FetchInFlight("video") /\ ~FetchInFlight("audio")
    /\ currentTime["audio"] = 310
    /\ NeedsPreload("audio", 310)

(***************************************************************************)
(* A preload attempt that stored nothing                                   *)
(***************************************************************************)

\* The step is the end of a range request without data: a network error or
\* a status other than 206.
AttemptFails(k) == \E size \in DataSizes : FetchReturn(k, FALSE, size)

\* C28: when a preload attempt of a stream ends without storing data, the
\* in-flight guard is released and the attempt leaves the cache as it was,
\* so the target is still not cached; and the next checkPreload of the stream
\* for that target issues a new fetch.
C28_RetryAfterFailure ==
    /\ [][\A k \in 1..MaxFetches : AttemptFails(k) =>
              /\ ~isPreloading'
              /\ segments' = segments]_vars
    /\ [][\A type \in Types, time \in PlaybackTimes :
              (/\ TimeUpdate(type, time)
               /\ (time + preloadDuration[type]) \in unserved[type]
               /\ NeedsPreload(type, time)
               /\ Len(fetches) < MaxFetches)
                  => FetchIssued(type, time)]_vars

\* The failed attempt itself releases the guard and stores nothing.
FailureReleasesGuard ==
    [][\A k \in 1..MaxFetches : AttemptFails(k) =>
           /\ ~isPreloading'
           /\ segments' = segments]_vars

\* With the guard free, checkPreload does fetch the target again.
RefetchWhenGuardFree ==
    [][\A type \in Types, time \in PlaybackTimes :
           (/\ TimeUpdate(type, time)
            /\ (time + preloadDuration[type]) \in unserved[type]
            /\ NeedsPreload(type, time)
            /\ ~isPreloading
            /\ Len(fetches) < MaxFetches)
               => FetchIssued(type, time)]_vars

RefetchHeldBack ==
    /\ 320 \in unserved["audio"]
    /\ currentTime["audio"] = 310
    /\ NeedsPreload("audio", 310)
    /\ isPreloading
    /\ FetchInFlight("video") /\ ~FetchInFlight("audio")

(***************************************************************************)
(* Configuration ranges                                                    *)
(***************************************************************************)

\* The value of the range lo..hi nearest to x.
Nearest(x, lo, hi) == IF x < lo THEN lo ELSE IF x > hi THEN hi ELSE x

\* The value not below lo nearest to x.
NearestFrom(x, lo) == IF x < lo THEN lo ELSE x

ConfigInRange ==
    /\ maxConcurrentDownloads \in 1..8
    /\ loaderConfig.segmentSize >= 262144
    /\ loaderConfig.retryAttempts >= 0
    /\ loaderConfig.timeout >= 5000
    /\ preloadDuration["video"] \in 1..300
    /\ preloadDuration["audio"] \in 10..600
    /\ \A type \in Types : preloaderConcurrency[type] \in 1..8

LoaderTakesNearest ==
    lastCall.on = "loader" =>
        /\ \A x \in lastCall.loader.maxConcurrentDownloads :
               maxConcurrentDownloads = Nearest(x, 1, 8)
        /\ \A x \in lastCall.loader.segmentSize :
               loaderConfig.segmentSize = NearestFrom(x, 262144)
        /\ \A x \in lastCall.loader.retryAttempts :
               loaderConfig.retryAttempts = NearestFrom(x, 0)
        /\ \A x \in lastCall.loader.timeout :
               loaderConfig.timeout = NearestFrom(x, 5000)

PreloaderTakesNearest ==
    lastCall.on = "preloader" =>
        /\ \A x \in lastCall.preloader.videoDuration :
               preloadDuration["video"] = Nearest(x, 1, 300)
        /\ \A x \in lastCall.preloader.audioDuration :
               preloadDuration["audio"] = Nearest(x, 10, 600)
        /\ \A x \in lastCall.preloader.videoMaxConcurrentDownloads :
               preloaderConcurrency["video"] = Nearest(x, 1, 8)
        /\ \A x \in lastCall.preloader.audioMaxConcurrentDownloads :
               preloaderConcurrency["audio"] = Nearest(x, 1, 8)

AppendsTo(h) ==
    /\ Len(adjustHistory') = Min(Len(h) + 1, 10)
    /\ LET dropped == Len(h) + 1 - Len(adjustHistory')
       IN  /\ dropped = IF Len(h) = 10 THEN 1 ELSE 0
           /\ \A k \in 1..(Len(adjustHistory') - 1) : adjustHistory'[k] = h[k + dropped]
    /\ adjustHistory'[Len(adjustHistory')].timestamp = now

\* C27: adjustHistory never holds more than 10 records; an 11th record pushes
\* the oldest one out, the others keep their order, and a record is never
\* changed once it is in the history.
C27_HistoryBounded ==
    /\ [](Len(adjustHistory) <= 10)
    /\ [][adjustHistory' # adjustHistory => AppendsTo(adjustHistory)]_vars

C27_Witness ==
    /\ Len(adjustHistory) = 10
    /\ adjustHistory[10].timestamp = maxHistory + 1
    /\ adjustHistory[1] = RecordedHistory[3]

(***************************************************************************)
(* Completion of a session                                                 *)
(***************************************************************************)

\* Download object t has been reported through its onError callback.
PermanentlyFailed(t) == errors[t] > 0

\* C29: onComplete is not invoked while a segment of the session waits for a
\* scheduled retry: when it fires, every planned segment is stored in
\* downloadedSegments or has been reported as permanently failed.
C29_CompleteAfterRetries ==
    ev.kind = "complete" =>
        \A t \in TasksOf(ev.sess) :
            /\ retryTimers[t] = 0
            /\ Stored(t) \/ PermanentlyFailed(t)

CompleteWhileRetryPending ==
    /\ ev.kind = "complete"
    /\ \E t \in TasksOf(ev.sess) :
           retryTimers[t] > 0 /\ ~Stored(t) /\ ~PermanentlyFailed(t)

\* C30: a started session that is not cancelled eventually invokes
\* onComplete when each of its requests ends in a success, a failure, a
\* timeout or a worker error, and no entry stays in activeDownloads forever.
C30_SessionCompletes ==
    /\ (nSessions > 0) ~> Completed
    /\ \A id \in SegIds : (activeDownloads[id] # 0) ~> (activeDownloads[id] = 0)

\* When every request ends in a message the session does complete.
CompletesWhenAnswered == (nSessions > 0) ~> Completed

\* A worker error has ended the request and its entry is still active.
EntryLeftByWorkerError ==
    \E t \in Tasks :
        /\ activeDownloads[t[2]] = t[1]
        /\ InFlight(t) = 0 /\ retryTimers[t] = 0 /\ ~InQueue(t)
        /\ requests[t] > 0
        /\ ~Stored(t) /\ t \notin failed

(***************************************************************************)
(* Direction of upgrades and of external requests                          *)
(***************************************************************************)

\* The step has recorded a change; its target.
ChangeRecorded == adjustHistory' # adjustHistory
RecordedTarget == adjustHistory'[Len(adjustHistory')].to

\* The step is an evaluation that takes the buffer-driven upgrade.
BufferDrivenUpgrade ==
    /\ TriggerEvaluation
    /\ makeQualityDecision.shouldChange
    /\ makeQualityDecision.reason.kind = "buffer"

InLadder(qn) == findIndex(qn) # 0

\* C31: a buffer-driven upgrade or an external 'higher' request never moves
\* to a tier below the current quality and a 'lower' request never moves to
\* one above it, whatever quality number the engine was started with.
C31_RequestsKeepDirection ==
    [][ChangeRecorded =>
          /\ (BufferDrivenUpgrade \/ QualityChangeRequest("higher"))
                 => RecordedTarget >= currentQuality
          /\ QualityChangeRequest("lower") => RecordedTarget <= currentQuality]_vars

\* For a quality number of the ladder the directions are kept.
LadderRequestsKeepDirection ==
    [][(ChangeRecorded /\ InLadder(currentQuality)) =>
          /\ (BufferDrivenUpgrade \/ QualityChangeRequest("higher"))
                 => RecordedTarget > currentQuality
          /\ QualityChangeRequest("lower") => RecordedTarget < currentQuality]_vars

HigherRequestWentDown ==
    /\ adjustHistory # <<>>
    /\ adjustHistory[Len(adjustHistory)].reason.kind = "external"
    /\ adjustHistory[Len(adjustHistory)].from = 125
    /\ adjustHistory[Len(adjustHistory)].to = 16

(***************************************************************************)
(* What the adjustment history records                                     *)
(***************************************************************************)

\* No change is waiting for its callback.
NoChangePending == awaiting = {}

\* The step is the rejection of the awaited callback.
CallbackRejects == \E q \in awaiting : CallbackReturns(q, FALSE)

\* C32: adjustHistory holds exactly the changes that were applied.  A change
\* whose callback rejects leaves currentQuality, stallCount and the history
\* as they were before it, so each record starts where the one before it
\* ended and the last record ends at currentQuality.
C32_HistoryIsApplied ==
    NoChangePending =>
        /\ \A i \in 1..(Len(adjustHistory) - 1) :
               adjustHistory[i + 1].from = adjustHistory[i].to
        /\ adjustHistory # <<>> =>
               adjustHistory[Len(adjustHistory)].to = currentQuality

\* The rejection itself leaves the quality and the stall count alone, and
\* the record of the attempt in the history.
RejectionKeepsState ==
    [][CallbackRejects =>
          /\ currentQuality' = currentQuality
          /\ stallCount' = stallCount
          /\ adjustHistory' = adjustHistory
          /\ adjustHistory[Len(adjustHistory)].to \in awaiting]_vars

RejectedChangeRecorded ==
    /\ NoChangePending
    /\ Len(adjustHistory) = 1
    /\ adjustHistory[1].from = 80
    /\ adjustHistory[1].to # 80
    /\ currentQuality = 80

(***************************************************************************)
(* A stopped engine                                                        *)
(***************************************************************************)

\* stop() has been called on the started engine and start() not since.
EngineStopped == started /\ ~intervalId

\* The step invokes the quality-change callback.
CallbackInvoked == awaiting' \ awaiting # {}

\* C33: a stopped engine does not invoke the quality-change callback, neither
\* from its evaluation timer nor for a later qualityChangeRequest event.
C33_SilentAfterStop ==
    [][(/\ EngineStopped
        /\ IntervalFires \/ \E direction \in Directions : QualityChangeRequest(direction))
           => ~CallbackInvoked]_vars

\* The evaluation timer of a stopped engine does not fire.
TimerSilentAfterStop == [][EngineStopped => ~IntervalFires]_vars

RequestServedAfterStop ==
    /\ EngineStopped
    /\ awaiting # {}
    /\ adjustHistory[Len(adjustHistory)].reason.kind = "external"
    /\ adjustHistory[Len(adjustHistory)].timestamp > 0


(***************************************************************************)
(* A stopped preloader                                                     *)
(***************************************************************************)

RangeRequestIssued == Len(fetches') > Len(fetches)
CachesEmpty == \A type \in Types : segments[type] = <<>>

\* C34: after MediaPreloader.stop() the preloader issues no further range
\* request and both segment caches stay empty, whatever timeupdate events the
\* old elements emit and whatever requests were in flight at the stop.
C34_QuietAfterStop ==
    [][stopped => (~RangeRequestIssued /\ CachesEmpty')]_vars

\* stop() itself leaves both caches empty.
StopClearsCaches ==
    [][PreloaderStop => CachesEmpty']_vars

\* A request issued before the stop is still pending after it.
PendingAtStop == stopped /\ fetches # <<>>

\* A stopped preloader holds a cached segment.
CachedAfterStop == stopped /\ ~CachesEmpty


(***************************************************************************)
(* Eviction on insertion                                                   *)
(***************************************************************************)

\* The cache of the stream of the k-th pending request right after the
\* Map.set of cacheSegment, before any clean-up.
AfterSet(k, size) ==
    CacheSet(segments[fetches[k].type],
             [key |-> SegmentKey(fetches[k].target), size |-> size, timestamp |-> clock])

\* Positions of m1 whose key is no longer in `after`.
Removed(m1, after) ==
    {j \in 1..Len(m1) : \A i \in 1..Len(after) : after[i].key # m1[j].key}

\* The removed segments are the oldest ones, none is removed within budget,
\* and the newest removed one was still needed to get within budget.
OldestFirst(m1, after, maxSize) ==
    LET gone == Removed(m1, after)
    IN  /\ \A j \in gone, i \in (1..Len(m1)) \ gone : m1[i].timestamp >= m1[j].timestamp
        /\ CacheTotal(m1) <= maxSize => gone = {}
        /\ gone # {} =>
               \E j \in gone :
                   /\ \A i \in gone : m1[i].timestamp <= m1[j].timestamp
                   /\ CacheTotal(after) + m1[j].size > maxSize

InsertionEvictsOldestFirst ==
    \A k \in 1..MaxFetches, size \in DataSizes :
        FetchReturn(k, TRUE, size) =>
            OldestFirst(AfterSet(k, size), segments'[fetches[k].type],
                        maxCacheSize[fetches[k].type])

\* C35: when an insertion takes a stream's cache over its budget, segments
\* are removed in ascending insertion timestamp and only as long as the total
\* exceeds the budget: no surviving segment is older than a removed one and
\* nothing is removed when the total was within budget.
C35_EvictsOldestFirst ==
    [][InsertionEvictsOldestFirst]_vars

\* The same for the legacy preloader alone.
LegacyEvictsOldestFirst ==
    [][variant = "legacy" => InsertionEvictsOldestFirst]_vars

\* The legacy preloader has evicted a segment on an insertion.
LegacyEvicted ==
    /\ variant = "legacy"
    /\ \E type \in Types : Len(segments[type]) = 1 /\ segments[type][1].timestamp > 0


(***************************************************************************)
(* Expiry of cached segments                                               *)
(***************************************************************************)

\* No segment of m lies more than 300 s behind the position cur.
NoneBehind(m, cur) == \A k \in 1..Len(m) : m[k].key >= cur - 300

ArmsRetry(d) == retryTimers'[d] > retryTimers[d]

\* A retry timer of d is pending.
RetryPending(d) == retryTimers[d] > 0

HoldsSlot(d) == activeDownloads[d[2]] = d[1]

\* While a retry timer of d is pending, d is neither queued nor active nor
\* requested.
IdleDuringDelay ==
    \A d \in Tasks : RetryPending(d) => (~InQueue(d) /\ ~HoldsSlot(d) /\ InFlight(d) = 0)

\* C37: after the k-th failed attempt of a segment (k <= retryAttempts) the
\* segment is re-enqueued by a timer whose delay is retryDelay times k, not by
\* the failing handler, and while the timer is pending the segment holds no
\* concurrency slot and has no request in flight.
C37_RetryDelayed ==
    [][/\ \A d \in Tasks :
              ArmsRetry(d) => /\ retries'[d] = requests[d]
                              /\ retries'[d] <= retryAttempts
                              /\ requests'[d] = requests[d]
       /\ IdleDuringDelay']_vars

\* A retry timer is pending for a download object whose request is still in
\* flight.
RequestedDuringDelay ==
    \E d \in Tasks : RetryPending(d) /\ InFlight(d) > 0

\* A retry timer is pending.
RetryDelayRunning == \E d \in Tasks : RetryPending(d) /\ retries[d] = 1


(***************************************************************************)
(* The extent planned when the size is unknown                             *)
(***************************************************************************)

SizeNotLearned == plan.called /\ plan.head.kind \in {"throws", "noLength"}

\* C38: when startDownload is called without a total size and the size is
\* not learned from the server (the HEAD request fails or carries no
\* content-length), the session plans the default extent of 50 MB and a
\* non-empty set of segments.
C38_DefaultExtent ==
    SizeNotLearned => (plan.totalBytes = defaultFileSize /\ plan.queued > 0)

\* The same when the HEAD request throws.
DefaultWhenHeadThrows ==
    (plan.called /\ plan.head.kind = "throws") =>
        (plan.totalBytes = defaultFileSize /\ plan.queued = 50)

\* A session was planned with no segment at all.
NothingPlanned == plan.called /\ plan.head.kind = "noLength" /\ plan.queued = 0

HeadThrew == plan.called /\ plan.head.kind = "throws"


(***************************************************************************)
(* The direction a throughput reason states                                *)
(***************************************************************************)

\* getQualityById(qn)?.bitrate; NoQuality stands for null.
getQualityById(qn) ==
    IF findIndex(qn) # 0 THEN qualityLevels[findIndex(qn)] ELSE NoQuality

\* The wording decision 2 chooses: "lowering" when speed is below the bitrate
\* of the current tier, "raising" otherwise (a comparison with undefined is
\* false).
statedDirection(speed, current) ==
    IF getQualityById(current) # NoQuality /\ speed < getQualityById(current).bitrate
    THEN "lower"
    ELSE "higher"

ThroughputRecords ==
    {k \in 1..Len(adjustHistory) : adjustHistory[k].reason.kind = "speed"}

DirectionStatedCorrectly(r) ==
    /\ statedDirection(r.reason.detail, r.from) = "lower" <=> r.to < r.from
    /\ statedDirection(r.reason.detail, r.from) = "higher" <=> r.to > r.from

\* C39: the reason attached to a throughput-driven change says that quality
\* is lowered exactly when the target tier is below the current one and that
\* it is raised exactly when the target tier is above it.
C39_ReasonStatesDirection ==
    \A k \in ThroughputRecords : DirectionStatedCorrectly(adjustHistory[k])

\* A reason that says "lowering" is attached to downgrades only.
LoweringMeansLower ==
    \A k \in ThroughputRecords :
        statedDirection(adjustHistory[k].reason.detail, adjustHistory[k].from) = "lower"
            => adjustHistory[k].to < adjustHistory[k].from

\* A downgrade within the ladder was recorded with a reason that says
\* "raising".
DowngradeCalledRaise ==
    \E k \in ThroughputRecords :
        /\ InLadder(adjustHistory[k].from)
        /\ adjustHistory[k].to < adjustHistory[k].from
        /\ statedDirection(adjustHistory[k].reason.detail, adjustHistory[k].from) = "higher"

\* A downgrade was recorded with a reason that says "lowering".
DowngradeCalledLower ==
    \E k \in ThroughputRecords :
        /\ adjustHistory[k].to < adjustHistory[k].from
        /\ statedDirection(adjustHistory[k].reason.detail, adjustHistory[k].from) = "lower"


(***************************************************************************)
(* Release of the isOptimizing guard                                       *)
(***************************************************************************)

\* handleLowBuffer has taken the guard and bufferHealth is back at
\* rebufferGoal.
RecoveredWhileOptimizing ==
    state.isOptimizing /\ state.bufferHealth >= rebufferGoal

\* C40: the isOptimizing guard is always released again: it does not stay set
\* for ever once bufferHealth has recovered to rebufferGoal, also when the
\* video was already paused at the time handleLowBuffer ran.
C40_GuardReleased == []<>~RecoveredWhileOptimizing

\* The guard is released whenever handleLowBuffer left a checkBuffer timer
\* behind.
ReleasedWhenTimerPending == []<>~(RecoveredWhileOptimizing /\ checkBufferTimer)

\* The guard is held and nothing is left that would release it.
GuardHeldWithoutTimer ==
    RecoveredWhileOptimizing /\ ~checkBufferTimer


====
